---- MODULE Spec2Model ----
(***************************************************************************)
(* A model of uncork's analysis + capture/normalization core:              *)
(*   src/src/uncork/registry.py  (RegistryProcessor: path tokenizer)       *)
(*   src/src/uncork/analysis.py  (PrefixAnalyzer)                          *)
(*   src/src/uncork/capture.py   (PrefixCapture: exclusion filter, symlink *)
(*                                handling, capture session, export)       *)
(*                                                                         *)
(* Text (paths, glob patterns, registry content) is modelled as TLA+       *)
(* strings, read character by character with Len, SubSeq and \o.           *)
(*                                                                         *)
(* Specifications:                                                         *)
(*   SpecExcl     the exclusion predicate applied to (pattern, path) pairs *)
(*   SpecTok      tokenize / detokenize applied to registry text           *)
(*   SpecAnalyze  PrefixAnalyzer.analyze applied to source trees           *)
(*   Spec         a PrefixCapture session over a source prefix: analyze,   *)
(*                add_executable, add_exclusion, remove_exclusion,         *)
(*                normalize and one export into a fresh destination        *)
(***************************************************************************)
EXTENDS Naturals, Sequences, FiniteSets, TLC

VARIABLES
    \* --- SpecExcl: one evaluation of the exclusion predicate
    ex_pattern,     \* glob pattern, written with forward slashes
    ex_path,        \* relative path, written with forward slashes
    ex_fwdpat,      \* decision for (pattern with "/", path with "\")
    ex_natpat,      \* decision for (pattern with "\", path with "/")
    ex_pc,          \* "idle" | "init" | "done"
    \* --- SpecTok: one tokenize / detokenize round
    tk_text,        \* the registry text before tokenization
    tk_user,        \* original_user
    tk_tokenized,   \* _tokenize_content(tk_text, tk_user)
    tk_restored,    \* detokenize_content(tk_tokenized, tk_user, home)
    tk_pc,          \* "idle" | "init" | "tokenized" | "done"
    \* --- SpecAnalyze: one PrefixAnalyzer.analyze() call
    an_root,        \* what the prefix root is: "absent" | "file" | "dir"
    an_tree,        \* the entries below the root
    an_result,      \* the outcome of analyze(): a report, or the exception
    an_pc,          \* "idle" | "init" | "done"
    \* --- Spec: a PrefixCapture session
    src,            \* the source prefix tree (self.prefix_path, a directory)
    update_prefix,  \* self._update_prefix
    analysis,       \* self._analysis: [cached, report]
    executables,    \* self._executables
    wine_config,    \* self._wine_config
    app_metadata,   \* self._app_metadata: [set, name, display_name]
    exclusions,     \* self._exclusions
    normalized,     \* self._normalized
    out,            \* the destination: [exported, staged, icons, attempts, wine,
                    \* manifest, file]
    last,           \* the last call: [op, path, icon, err] (err "" when none is raised)
    loaded,         \* what PackageSpec.load(output_path) returned, once called
    pl_pc,          \* SpecStages: the stage export is about to run ("idle": not in export)
    pl_done,        \* SpecStages: the stages export has run, in order
    \* --- SpecIds: the executable ids the command line derives from display names
    dn_names,       \* the display names of the --exe options, in order
    dn_bases,       \* base_id of each
    dn_ids,         \* exe_id of each
    dn_pc,          \* "idle" | "init" | "done"
    \* --- SpecFind: one PrefixAnalyzer._find_executables() call
    fe_walk,        \* what os.walk(drive_c) yields: [root, files] per directory
    fe_result,      \* the list the call returns
    fe_pc,          \* "idle" | "init" | "done"
    \* --- SpecLink: one PrefixCapture._handle_symlink() call
    lk_path,        \* rel_path of the link
    lk_target,      \* os.readlink(src)
    lk_result,      \* the link made at dest (a set: empty when none is made)
    lk_pc           \* "idle" | "init" | "done"

exVars == <<ex_pattern, ex_path, ex_fwdpat, ex_natpat, ex_pc>>
tkVars == <<tk_text, tk_user, tk_tokenized, tk_restored, tk_pc>>

anVars == <<an_root, an_tree, an_result, an_pc>>

seVars == <<src, update_prefix, analysis, executables, wine_config,
            app_metadata, exclusions, normalized, out, last, loaded, pl_pc, pl_done>>

dnVars == <<dn_names, dn_bases, dn_ids, dn_pc>>

feVars == <<fe_walk, fe_result, fe_pc>>

lkVars == <<lk_path, lk_target, lk_result, lk_pc>>

vars == <<exVars, tkVars, anVars, seVars, dnVars, feVars, lkVars>>

\* The state of a component that a specification does not run.
ExclIdle ==
    /\ ex_pattern = "" /\ ex_path = ""
    /\ ex_fwdpat = FALSE /\ ex_natpat = FALSE /\ ex_pc = "idle"

TokIdle ==
    /\ tk_text = "" /\ tk_user = "" /\ tk_tokenized = "" /\ tk_restored = ""
    /\ tk_pc = "idle"

AnIdle ==
    /\ an_root = "absent" /\ an_tree = {} /\ an_result = <<>> /\ an_pc = "idle"

SessIdle ==
    /\ src = {} /\ update_prefix = FALSE /\ analysis = <<>>
    /\ executables = <<>> /\ wine_config = <<>> /\ app_metadata = <<>>
    /\ exclusions = <<>> /\ normalized = FALSE /\ out = <<>> /\ last = <<>>
    /\ loaded = <<>> /\ pl_pc = "idle" /\ pl_done = <<>>

IdsIdle ==
    /\ dn_names = <<>> /\ dn_bases = <<>> /\ dn_ids = <<>> /\ dn_pc = "idle"

FindIdle ==
    /\ fe_walk = <<>> /\ fe_result = <<>> /\ fe_pc = "idle"

LinkIdle ==
    /\ lk_path = "" /\ lk_target = "" /\ lk_result = {} /\ lk_pc = "idle"

-----------------------------------------------------------------------------
(* Text helpers                                                            *)

Char(s, i) == SubSeq(s, i, i)

StartsWithAt(s, i, pre) ==
    /\ i + Len(pre) - 1 <= Len(s)
    /\ SubSeq(s, i, i + Len(pre) - 1) = pre

StartsWith(s, pre) == StartsWithAt(s, 1, pre)

\* `needle in s` of Python
Contains(s, needle) == \E i \in 1..(Len(s) + 1) : StartsWithAt(s, i, needle)

\* str.replace(old, new) for a one-character `old`
RECURSIVE ReplaceCharFrom(_, _, _, _)
ReplaceCharFrom(s, i, old, new) ==
    IF i > Len(s) THEN ""
    ELSE (IF Char(s, i) = old THEN new ELSE Char(s, i))
         \o ReplaceCharFrom(s, i + 1, old, new)

ReplaceChar(s, old, new) == ReplaceCharFrom(s, 1, old, new)

-----------------------------------------------------------------------------
(* Path tokenizer: registry.py, RegistryProcessor                          *)

USER_TOKEN == "__WINE_USER__"
HOME_TOKEN == "__USER_HOME__"

UpperAlpha == "ABCDEFGHIJKLMNOPQRSTUVWXYZ"
LowerAlpha == "abcdefghijklmnopqrstuvwxyz"

\* str.lower() of one character / re.IGNORECASE folding
Lower(c) ==
    IF \E k \in 1..Len(UpperAlpha) : Char(UpperAlpha, k) = c
    THEN Char(LowerAlpha, CHOOSE k \in 1..Len(UpperAlpha) : Char(UpperAlpha, k) = c)
    ELSE c

RECURSIVE ToLowerFrom(_, _)
ToLowerFrom(s, i) ==
    IF i > Len(s) THEN "" ELSE Lower(Char(s, i)) \o ToLowerFrom(s, i + 1)

ToLower(s) == ToLowerFrom(s, 1)

\* Two characters match (letter case aside when ic, as under re.IGNORECASE).
CharMatches(a, b, ic) == a = b \/ (ic /\ Lower(a) = Lower(b))

\* Whether pat[j..] matches text from position i + j - 1 on, character by character.
RECURSIVE MatchesFrom(_, _, _, _, _)
MatchesFrom(text, i, pat, j, ic) ==
    \/ j > Len(pat)
    \/ /\ CharMatches(Char(text, i + j - 1), Char(pat, j), ic)
       /\ MatchesFrom(text, i, pat, j + 1, ic)

\* Whether the literal `pat` matches `text` at position i (re.IGNORECASE when ic).
MatchesAt(text, i, pat, ic) ==
    /\ i + Len(pat) - 1 <= Len(text)
    /\ MatchesFrom(text, i, pat, 1, ic)

\* re.sub / str.replace for a pattern that is a literal text: the leftmost
\* non-overlapping matches, scanning left to right; each match becomes its own
\* first `keep` characters (the group \1) followed by `repl`.
RECURSIVE SubFrom(_, _, _, _, _, _)
SubFrom(text, i, pat, keep, repl, ic) ==
    IF i > Len(text) THEN ""
    ELSE IF MatchesAt(text, i, pat, ic)
         THEN SubSeq(text, i, i + keep - 1) \o repl
              \o SubFrom(text, i + Len(pat), pat, keep, repl, ic)
         ELSE Char(text, i) \o SubFrom(text, i + 1, pat, keep, repl, ic)

\* The five path prefixes of _tokenize_content, as the text they match: the
\* regex source C:\\\\users\\\\ matches C:\\users\\ (two backslashes each),
\* C:\\users\\ matches C:\users\ .
PFX_C_ESCAPED == "C:\\\\users\\\\"
PFX_C_SINGLE  == "C:\\users\\"
PFX_Z_ESCAPED == "Z:\\\\home\\\\"
PFX_Z_SINGLE  == "Z:\\home\\"
PFX_HOME      == "/home/"

\* What follows {escaped_user} in each regex.  The patterns are raw strings, so
\* the source text \\b is the regex "a backslash, then the letter b": it
\* matches those two characters and is no word boundary.
USER_TAIL == "\\b"

\* One of the five re.sub calls: pattern prefix + re.escape(user) + tail (the
\* escaped user matches the user name literally), replacement \1 + token.
tokenize_rule(content, prefix, user, token, ic) ==
    SubFrom(content, 1, prefix \o user \o USER_TAIL, Len(prefix), token, ic)

\* RegistryProcessor._tokenize_content
tokenize_content(content, original_user) ==
    LET c1 == tokenize_rule(content, PFX_C_ESCAPED, original_user, USER_TOKEN, TRUE)
        c2 == tokenize_rule(c1, PFX_C_SINGLE, original_user, USER_TOKEN, TRUE)
        c3 == tokenize_rule(c2, PFX_Z_ESCAPED, original_user, USER_TOKEN, TRUE)
        c4 == tokenize_rule(c3, PFX_Z_SINGLE, original_user, USER_TOKEN, TRUE)
    IN  tokenize_rule(c4, PFX_HOME, original_user, USER_TOKEN, FALSE)

\* RegistryProcessor.detokenize_content
detokenize_content(content, actual_user, actual_home) ==
    LET c1 == SubFrom(content, 1, USER_TOKEN, 0, actual_user, FALSE)
    IN  SubFrom(c1, 1, HOME_TOKEN, 0, actual_home, FALSE)

\* Registry text of the model: up to MaxFrags fragments in a row.
MaxFrags == 3

TokFragments ==
    { PFX_C_ESCAPED, "c:\\users\\", PFX_Z_ESCAPED, PFX_Z_SINGLE, PFX_HOME,
      "alice", "ALICE", "\\\\Desktop", "\\bin", "/x", "x" }

RECURSIVE TextsOf(_)
TextsOf(n) ==
    IF n = 0 THEN {""}
    ELSE LET shorter == TextsOf(n - 1)
         IN  shorter \cup {t \o f : t \in shorter, f \in TokFragments}

TokTexts == TextsOf(MaxFrags)
TokUsers == {"alice", "al"}
TokHome(user) == "/home/" \o user

TokInit ==
    /\ tk_text \in TokTexts
    /\ tk_user \in TokUsers
    /\ tk_tokenized = "" /\ tk_restored = ""
    /\ tk_pc = "init"

\* tokenize_file without the file I/O
Tokenize ==
    /\ tk_pc = "init"
    /\ tk_tokenized' = tokenize_content(tk_text, tk_user)
    /\ tk_pc' = "tokenized"
    /\ UNCHANGED <<tk_text, tk_user, tk_restored>>
    /\ UNCHANGED <<exVars, anVars, seVars, dnVars, feVars, lkVars>>

\* The install-time inverse, for the same user
Detokenize ==
    /\ tk_pc = "tokenized"
    /\ tk_restored' = detokenize_content(tk_tokenized, tk_user, TokHome(tk_user))
    /\ tk_pc' = "done"
    /\ UNCHANGED <<tk_text, tk_user, tk_tokenized>>
    /\ UNCHANGED <<exVars, anVars, seVars, dnVars, feVars, lkVars>>

InitTok == TokInit /\ ExclIdle /\ AnIdle /\ SessIdle /\ IdsIdle
    /\ FindIdle /\ LinkIdle
NextTok == Tokenize \/ Detokenize
SpecTok == InitTok /\ [][NextTok]_vars


-----------------------------------------------------------------------------
(* File trees.  A tree is a set of entries [path, kind, data]: path is     *)
(* relative to the prefix root, kind is "dir", "xdir" (a directory that    *)
(* cannot be listed), "file" or "link"; data is a link's target or a       *)
(* file's text.  Every entry's parent directory is an entry too.           *)

RECURSIVE LastSlashFrom(_, _)
LastSlashFrom(p, i) ==
    IF i = 0 THEN 0
    ELSE IF Char(p, i) = "/" THEN i ELSE LastSlashFrom(p, i - 1)

LastSlash(p) == LastSlashFrom(p, Len(p))

\* Path.name and Path.parent ("" stands for the root itself)
PathName(p) == SubSeq(p, LastSlash(p) + 1, Len(p))
PathParent(p) == IF LastSlash(p) = 0 THEN "" ELSE SubSeq(p, 1, LastSlash(p) - 1)

\* root / a / b
Join(a, b) == IF a = "" THEN b ELSE a \o "/" \o b

Dir(p)         == [path |-> p, kind |-> "dir",  data |-> ""]
XDir(p)        == [path |-> p, kind |-> "xdir", data |-> ""]
File(p, text)  == [path |-> p, kind |-> "file", data |-> text]
Link(p, target) == [path |-> p, kind |-> "link", data |-> target]

Has(tree, p) == \E e \in tree : e.path = p
EntryAt(tree, p) == CHOOSE e \in tree : e.path = p
KindAt(tree, p) == IF Has(tree, p) THEN EntryAt(tree, p).kind ELSE "absent"
ChildrenOf(tree, d) == {e \in tree : PathParent(e.path) = d /\ e.path # ""}

\* Path.exists() of root/p: os.stat succeeds.  ENOENT and ENOTDIR (a missing
\* entry, a regular file on the way) give False.  The links of the model are
\* never on the way to another entry and their targets resolve on the
\* capture machine.
path_exists(root, tree, p) ==
    IF p = "" THEN root # "absent" ELSE root = "dir" /\ Has(tree, p)

\* Path.is_dir() / Path.is_symlink()
path_is_dir(root, tree, p) ==
    path_exists(root, tree, p) /\ KindAt(tree, p) \in {"dir", "xdir"}
path_is_symlink(root, tree, p) ==
    path_exists(root, tree, p) /\ KindAt(tree, p) = "link"

-----------------------------------------------------------------------------
(* Prefix analyzer: analysis.py, PrefixAnalyzer                            *)

DRIVE_C    == "drive_c"
SYSTEM_REG == "system.reg"
USER_REG   == "user.reg"
USERS_DIR  == "drive_c/users"
Z_DRIVE    == "dosdevices/z:"

\* detected_user = None is the empty text (both are falsy where the code tests it)
NoUser == ""

W_NO_PATH   == "Prefix path does not exist"
W_NOT_VALID == "Missing drive_c or system.reg - may not be a valid Wine prefix"
W_Z_DRIVE   == "Z: drive exposes full filesystem - consider sandboxing"
W_SHELL(item) == "Shell folder '" \o item \o "' links to absolute path"

\* PrefixAnalysis(prefix_path=...): the dataclass defaults
DefaultReport ==
    [exists |-> FALSE, is_valid_prefix |-> FALSE,
     has_system_reg |-> FALSE, has_user_reg |-> FALSE,
     detected_user |-> NoUser, warnings |-> <<>>]

Returned(report) == [raised |-> "", report |-> report]
Raised(exc)      == [raised |-> exc, report |-> DefaultReport]

RESERVED_USERS == {"public", "default"}

\* _detect_user: what the call may do.  iterdir() yields the entries in the
\* directory's own order, so "the first" qualifying entry is any of them;
\* iterdir() of a regular file or of an unlistable directory raises.
detect_user(root, tree) ==
    IF ~path_exists(root, tree, USERS_DIR) THEN {Returned(NoUser)}
    ELSE IF KindAt(tree, USERS_DIR) = "file" THEN {Raised("NotADirectoryError")}
    ELSE IF KindAt(tree, USERS_DIR) = "xdir" THEN {Raised("PermissionError")}
    ELSE LET named == {e \in ChildrenOf(tree, USERS_DIR) :
                          /\ e.kind \in {"dir", "xdir"}
                          /\ ToLower(PathName(e.path)) \notin RESERVED_USERS}
         IN  IF named = {} THEN {Returned(NoUser)}
             ELSE {Returned(PathName(e.path)) : e \in named}

SHELL_FOLDERS == <<"Desktop", "Documents", "Downloads", "Music", "Pictures", "Videos">>

\* _check_issues: the warnings it appends, in order
RECURSIVE ShellWarnings(_, _, _, _)
ShellWarnings(root, tree, user, k) ==
    IF k > Len(SHELL_FOLDERS) THEN <<>>
    ELSE LET link == Join(Join(USERS_DIR, user), SHELL_FOLDERS[k])
             here == IF /\ path_is_symlink(root, tree, link)
                        /\ StartsWith(EntryAt(tree, link).data, "/")
                     THEN <<W_SHELL(SHELL_FOLDERS[k])>> ELSE <<>>
         IN  here \o ShellWarnings(root, tree, user, k + 1)

check_issues(root, tree, user) ==
    (IF user # NoUser THEN ShellWarnings(root, tree, user, 1) ELSE <<>>)
    \o (IF path_is_symlink(root, tree, Z_DRIVE) /\ EntryAt(tree, Z_DRIVE).data = "/"
        THEN <<W_Z_DRIVE>> ELSE <<>>)

\* drive_c.exists() and result.has_system_reg
is_valid_prefix(root, tree) ==
    path_exists(root, tree, DRIVE_C) /\ path_exists(root, tree, SYSTEM_REG)

\* PrefixAnalyzer.analyze: the set of its possible outcomes on a tree
analyze(root, tree) ==
    IF ~path_exists(root, tree, "")
    THEN {Returned([DefaultReport EXCEPT !.warnings = <<W_NO_PATH>>])}
    ELSE LET base == [DefaultReport EXCEPT
                         !.exists = TRUE,
                         !.has_system_reg = path_exists(root, tree, SYSTEM_REG),
                         !.has_user_reg = path_exists(root, tree, USER_REG),
                         !.is_valid_prefix = is_valid_prefix(root, tree)]
         IN  IF ~base.is_valid_prefix
             THEN {Returned([base EXCEPT !.warnings = <<W_NOT_VALID>>])}
             ELSE { IF u.raised # "" THEN u
                    ELSE Returned([base EXCEPT
                             !.detected_user = u.report,
                             !.warnings = check_issues(root, tree, u.report)])
                    : u \in detect_user(root, tree) }

\* The trees the analyzer is run on.
UserDirNames == {"alice", "Public", "default"}
LinkTargets  == {"", "/", "/home/alice/Desktop", "../Desktop"}

UsersPart(users, names, desktop) ==
    IF users = "absent" THEN {}
    ELSE IF users = "file" THEN {File(USERS_DIR, "")}
    ELSE IF users = "xdir" THEN {XDir(USERS_DIR)}
    ELSE {Dir(USERS_DIR)}
         \cup {Dir(Join(USERS_DIR, n)) : n \in names}
         \cup (IF "alice" \in names /\ desktop # ""
               THEN {Link("drive_c/users/alice/Desktop", desktop)} ELSE {})

MkTree(drive_c, system_reg, users, names, desktop, zdrive) ==
    (IF drive_c = "dir" THEN {Dir(DRIVE_C)} \cup UsersPart(users, names, desktop)
     ELSE IF drive_c = "file" THEN {File(DRIVE_C, "")} ELSE {})
    \cup (IF system_reg THEN {File(SYSTEM_REG, "")} ELSE {})
    \cup (IF zdrive # "" THEN {Dir("dosdevices"), Link(Z_DRIVE, zdrive)} ELSE {})

AnTrees ==
    { MkTree(dc, sr, us, ns, dk, z) :
        dc \in {"absent", "dir", "file"}, sr \in BOOLEAN,
        us \in {"absent", "dir", "file", "xdir"}, ns \in SUBSET UserDirNames,
        dk \in {"", "/home/alice/Desktop", "../Desktop"}, z \in {"", "/", ".."} }

AnInit ==
    /\ an_root \in {"absent", "file", "dir"}
    /\ an_tree \in (IF an_root = "dir" THEN AnTrees ELSE {{}})
    /\ an_result = <<>>
    /\ an_pc = "init"

\* analyze_prefix(prefix_path)
Analyze ==
    /\ an_pc = "init"
    /\ an_result' \in analyze(an_root, an_tree)
    /\ an_pc' = "done"
    /\ UNCHANGED <<an_root, an_tree>>
    /\ UNCHANGED <<exVars, tkVars, seVars, dnVars, feVars, lkVars>>

InitAnalyze == AnInit /\ ExclIdle /\ TokIdle /\ SessIdle /\ IdsIdle
    /\ FindIdle /\ LinkIdle
NextAnalyze == Analyze
SpecAnalyze == InitAnalyze /\ [][NextAnalyze]_vars

-----------------------------------------------------------------------------
(* Executable candidates: analysis.py, PrefixAnalyzer._find_executables    *)

\* SKIP_EXE_PATTERNS, each `word` followed by `rest` and then \.exe$ : rest is
\* "none", "digits" (\d*) or "any" (.*)
SKIP_EXE_PATTERNS == <<
    [word |-> "unins",    rest |-> "digits"],
    [word |-> "uninst",   rest |-> "any"],
    [word |-> "setup",    rest |-> "none"],
    [word |-> "install",  rest |-> "any"],
    [word |-> "update",   rest |-> "any"],
    [word |-> "crash",    rest |-> "any"],
    [word |-> "report",   rest |-> "any"],
    [word |-> "helper",   rest |-> "any"],
    [word |-> "launcher", rest |-> "none"] >>

SKIP_DIRS == <<
    "windows",
    "Program Files/Common Files",
    "Program Files (x86)/Common Files",
    "Program Files/Windows",
    "ProgramData" >>

EndsWith(s, suffix) ==
    Len(s) >= Len(suffix) /\ SubSeq(s, Len(s) - Len(suffix) + 1, Len(s)) = suffix

IsDigits(s) == \A k \in 1..Len(s) : \E d \in 1..10 : Char("0123456789", d) = Char(s, k)

\* p.search(file) for a pattern compiled with re.IGNORECASE
pattern_search(pat, file) ==
    LET lower == ToLower(file)
    IN  /\ EndsWith(lower, ".exe")
        /\ \E i \in 1..Len(lower) :
              /\ StartsWithAt(lower, i, pat.word)
              /\ i + Len(pat.word) <= Len(lower) - 3
              /\ LET between == SubSeq(lower, i + Len(pat.word), Len(lower) - 4)
                 IN  CASE pat.rest = "none" -> between = ""
                       [] pat.rest = "digits" -> IsDigits(between)
                       [] OTHER -> TRUE

\* any(p.search(file) for p in skip_patterns)
should_skip(file) ==
    \E k \in 1..Len(SKIP_EXE_PATTERNS) : pattern_search(SKIP_EXE_PATTERNS[k], file)

\* `if skip_dir.lower() in str(rel_root).lower()` for some entry of SKIP_DIRS
skip_root(rel_root) ==
    \E k \in 1..Len(SKIP_DIRS) : Contains(ToLower(rel_root), ToLower(SKIP_DIRS[k]))

\* size > 1_000_000
PROBABLE_APP_SIZE == 1000000

\* Path(file).stem
Stem(file) ==
    LET dots == {i \in 2..Len(file) : Char(file, i) = "."}
    IN  IF dots = {} THEN file
        ELSE SubSeq(file, 1, (CHOOSE i \in dots : \A j \in dots : j <= i) - 1)

\* the loop over the files of one directory, from file k on
RECURSIVE files_from(_, _, _)
files_from(rel_root, files, k) ==
    IF k > Len(files) THEN <<>>
    ELSE LET file == files[k]
         IN  (IF ~EndsWith(ToLower(file.name), ".exe") \/ should_skip(file.name)
              THEN <<>>
              ELSE <<[path |-> Join(rel_root, file.name), name |-> Stem(file.name),
                      size |-> file.size,
                      probable_app |-> file.size > PROBABLE_APP_SIZE]>>)
             \o files_from(rel_root, files, k + 1)

\* the loop over os.walk(drive_c), from directory k on
RECURSIVE walk_from(_, _)
walk_from(walk, k) ==
    IF k > Len(walk) THEN <<>>
    ELSE (IF skip_root(walk[k].root) THEN <<>>
          ELSE files_from(walk[k].root, walk[k].files, 1))
         \o walk_from(walk, k + 1)

\* A plausible slip: an element is put before the elements of its own size.
RECURSIVE insert_by_size_tiesfirst(_, _)
insert_by_size_tiesfirst(sorted, x) ==
    IF sorted = <<>> THEN <<x>>
    ELSE IF Head(sorted).size > x.size
    THEN <<Head(sorted)>> \o insert_by_size_tiesfirst(Tail(sorted), x)
    ELSE <<x>> \o sorted

\* list.sort(key=size, reverse=True) is stable: an element goes behind every
\* element that is not smaller
RECURSIVE insert_by_size(_, _)
insert_by_size(sorted, x) ==
    IF sorted = <<>> THEN <<x>>
    ELSE IF Head(sorted).size >= x.size
    THEN <<Head(sorted)>> \o insert_by_size(Tail(sorted), x)
    ELSE <<x>> \o sorted

RECURSIVE sort_by_size(_)
sort_by_size(list) ==
    IF list = <<>> THEN <<>>
    ELSE insert_by_size(sort_by_size(SubSeq(list, 1, Len(list) - 1)), list[Len(list)])

\* _find_executables on what os.walk yields
find_executables(walk) == sort_by_size(walk_from(walk, 1))

WalkFile(name, size) == [name |-> name, size |-> size]

\* The directories below drive_c that hold files, with their files in listing order.
WalkDirs ==
    { [root |-> "drive_c/Games",
       files |-> <<WalkFile("tool.exe", 10000), WalkFile("game.exe", 2000000),
                   WalkFile("setup.exe", 5000000), WalkFile("readme.txt", 2000000)>>],
      [root |-> "drive_c/Games/MyWindowsGame",
       files |-> <<WalkFile("game.exe", 1000001)>>],
      [root |-> "drive_c/windows/system32",
       files |-> <<WalkFile("notepad.exe", 3000000)>>],
      [root |-> "drive_c/Program Files/App",
       files |-> <<WalkFile("App.EXE", 1000000), WalkFile("other.exe", 10000),
                   WalkFile("Unins000.exe", 10000)>>],
      [root |-> "drive_c/Program Files/Common Files/Shared",
       files |-> <<WalkFile("svc.exe", 10000)>>] }

\* At most this many directories with files in a walk.
MaxWalk == 3

\* os.walk is top-down: a directory comes after the directories above it.
\* os.walk yields a directory once, and top-down: after the directories above it.
WalkOrdered(w) ==
    \A i, j \in 1..Len(w) :
       i < j => (w[i] # w[j] /\ ~StartsWith(w[i].root, w[j].root \o "/"))

RECURSIVE Walks(_)
Walks(n) ==
    IF n = 0 THEN {<<>>}
    ELSE LET shorter == Walks(n - 1)
         IN  shorter \cup
             { w \in { Append(v, d) : v \in shorter, d \in WalkDirs } : WalkOrdered(w) }

FindInit ==
    /\ fe_walk \in Walks(MaxWalk)
    /\ fe_result = <<>>
    /\ fe_pc = "init"

\* self._find_executables()
FindExecutables ==
    /\ fe_pc = "init"
    /\ fe_result' = find_executables(fe_walk)
    /\ fe_pc' = "done"
    /\ UNCHANGED fe_walk
    /\ UNCHANGED <<exVars, tkVars, anVars, seVars, dnVars, lkVars>>

InitFind == FindInit /\ ExclIdle /\ TokIdle /\ AnIdle /\ SessIdle /\ IdsIdle /\ LinkIdle
NextFind == FindExecutables
SpecFind == InitFind /\ [][NextFind]_vars


-----------------------------------------------------------------------------
(* Exclusion filter: capture.py, _copy_prefix.should_exclude               *)

\* fnmatch.fnmatch(name, pat) on POSIX (normcase is the identity): the whole
\* name must match; "*" matches any run of characters, "/" included (so "**"
\* is the same as "*"), "?" matches one character, every other character,
\* the backslash included, matches itself.  The patterns of the model hold
\* no "[" (character classes are not exercised).
RECURSIVE GlobMatch(_, _, _, _)
GlobMatch(s, i, p, j) ==
    IF j > Len(p) THEN i > Len(s)
    ELSE IF Char(p, j) = "*"
         THEN \/ GlobMatch(s, i, p, j + 1)
              \/ (i <= Len(s) /\ GlobMatch(s, i + 1, p, j))
    ELSE IF Char(p, j) = "?"
         THEN i <= Len(s) /\ GlobMatch(s, i + 1, p, j + 1)
    ELSE /\ i <= Len(s)
         /\ Char(s, i) = Char(p, j)
         /\ GlobMatch(s, i + 1, p, j + 1)

fnmatch(name, pat) == GlobMatch(name, 1, pat, 1)

\* should_exclude(rel_path) over self._exclusions
should_exclude(patterns, rel_path) ==
    LET normalized_path == ReplaceChar(rel_path, "\\", "/")
    IN  \E k \in 1..Len(patterns) :
            \/ fnmatch(rel_path, patterns[k])
            \/ fnmatch(normalized_path, patterns[k])

\* PrefixCapture.DEFAULT_EXCLUSIONS
DEFAULT_EXCLUSIONS == <<
    "*.dxvk-cache",
    "*.log",
    "*.tmp",
    "mesa_shader_cache/**",
    "nvidiav1/**",
    "GLCache/**",
    "drive_c/users/*/Temp/**",
    "drive_c/users/*/Local Settings/Temp/**",
    "drive_c/windows/temp/**",
    "drive_c/windows/Temp/**",
    ".update-timestamp" >>

\* The same text written with the backslash as separator.
ToBackslash(s) == ReplaceChar(s, "/", "\\")

ExclPatterns ==
    {DEFAULT_EXCLUSIONS[k] : k \in 1..Len(DEFAULT_EXCLUSIONS)}
        \cup {"drive_c/*", "*.reg", "a?b"}

ExclPaths ==
    { "system.reg", "a.log", "drive_c/a.log", "GLCache/s.bin",
      "drive_c/windows/temp/x", "drive_c/users/alice/Temp/t",
      "drive_c/Games/game.exe", ".update-timestamp", "a/b" }

ExclInit ==
    /\ ex_pattern \in ExclPatterns
    /\ ex_path \in ExclPaths
    /\ ex_fwdpat = FALSE /\ ex_natpat = FALSE
    /\ ex_pc = "init"

\* One call of should_exclude for each of the two ways of writing the pair.
ShouldExclude ==
    /\ ex_pc = "init"
    /\ ex_fwdpat' = should_exclude(<<ex_pattern>>, ToBackslash(ex_path))
    /\ ex_natpat' = should_exclude(<<ToBackslash(ex_pattern)>>, ex_path)
    /\ ex_pc' = "done"
    /\ UNCHANGED <<ex_pattern, ex_path>>
    /\ UNCHANGED <<tkVars, anVars, seVars, dnVars, feVars, lkVars>>

InitExcl == ExclInit /\ TokIdle /\ AnIdle /\ SessIdle /\ IdsIdle
    /\ FindIdle /\ LinkIdle
NextExcl == ShouldExclude
SpecExcl == InitExcl /\ [][NextExcl]_vars

-----------------------------------------------------------------------------
(* Capture session: capture.py, PrefixCapture                              *)

PREFIX_PATH == "/home/alice/.wine-myapp"

\* What exists outside the prefix on the capture machine.
OutsideFiles == {"/icons/ok.png", "/usr/bin/wine"}
OutsideDirs  == {"/opt/wine-9"}

\* (self.prefix_path / path).exists(): joining an absolute path gives that path.
full_path_exists(tree, path) ==
    IF StartsWith(path, "/") THEN path \in OutsideFiles \cup OutsideDirs
    ELSE path_exists("dir", tree, path)

\* A plausible slip: the custom icon is not validated.
add_executable_accepts_noicon(tree, path, custom_icon_path) ==
    full_path_exists(tree, path)

\* add_executable's two validations: neither raises
add_executable_accepts(tree, path, custom_icon_path) ==
    /\ full_path_exists(tree, path)
    /\ custom_icon_path # "" => custom_icon_path \in OutsideFiles

\* Executable(...) as add_executable builds it (icon = None is "")
NewExecutable(in) ==
    [id |-> in.id, name |-> in.name, path |-> in.path, icon |-> "",
     icon_source |-> in.path, custom_icon_path |-> in.custom_icon_path]

ALNUM_LOWER == "abcdefghijklmnopqrstuvwxyz0123456789"
IsAlnumLower(c) == \E k \in 1..Len(ALNUM_LOWER) : Char(ALNUM_LOWER, k) = c

\* re.sub(r'[^a-z0-9]', '-', text): every other character becomes one hyphen
RECURSIVE HyphenateFrom(_, _)
HyphenateFrom(text, i) ==
    IF i > Len(text) THEN ""
    ELSE (IF IsAlnumLower(Char(text, i)) THEN Char(text, i) ELSE "-")
         \o HyphenateFrom(text, i + 1)

\* str.strip('-')
RECURSIVE StripHyphens(_)
StripHyphens(text) ==
    IF text = "" THEN ""
    ELSE IF Char(text, 1) = "-" THEN StripHyphens(SubSeq(text, 2, Len(text)))
    ELSE IF Char(text, Len(text)) = "-" THEN StripHyphens(SubSeq(text, 1, Len(text) - 1))
    ELSE text

\* re.sub(r'[^a-z0-9]', '-', name.lower()).strip('-')
derive_name(name) == StripHyphens(HyphenateFrom(ToLower(name), 1))

-----------------------------------------------------------------------------
(* Executable ids on the command line: cli.py, capture                     *)

\* str(n) for a natural number
RECURSIVE DecimalStr(_)
DecimalStr(n) ==
    IF n < 10 THEN Char("0123456789", n + 1)
    ELSE DecimalStr(n \div 10) \o Char("0123456789", (n % 10) + 1)

\* The loop over the --exe options from option k on; `counts` is exe_id_counts.
\* For each display name: [base, id] (base_id and exe_id).
RECURSIVE exe_ids_from(_, _, _)
exe_ids_from(names, k, counts) ==
    IF k > Len(names) THEN <<>>
    ELSE LET base_id == derive_name(names[k])
         IN  IF base_id \in DOMAIN counts
             THEN LET n == counts[base_id] + 1
                  IN  <<[base |-> base_id, id |-> base_id \o "-" \o DecimalStr(n)]>>
                      \o exe_ids_from(names, k + 1, [counts EXCEPT ![base_id] = n])
             ELSE <<[base |-> base_id, id |-> base_id]>>
                  \o exe_ids_from(names, k + 1, counts @@ (base_id :> 0))

\* exe_id_counts = {} before the loop
exe_ids(names) == exe_ids_from(names, 1, <<>>)

\* At most this many --exe options on a command line.
MaxNames == 3

NameInputs ==
    {"Launcher", "Launcher 1", "launcher-1", "My Cool App!!", "A & B", "Tool"}

RECURSIVE NameSeqs(_)
NameSeqs(n) ==
    IF n = 0 THEN {<<>>}
    ELSE LET shorter == NameSeqs(n - 1)
         IN  shorter \cup {Append(q, x) : q \in shorter, x \in NameInputs}

IdsInit ==
    /\ dn_names \in NameSeqs(MaxNames)
    /\ dn_bases = <<>> /\ dn_ids = <<>>
    /\ dn_pc = "init"

\* The id derivation of one `capture` command
DeriveIds ==
    /\ dn_pc = "init"
    /\ LET r == exe_ids(dn_names)
       IN  /\ dn_bases' = [k \in 1..Len(r) |-> r[k].base]
           /\ dn_ids' = [k \in 1..Len(r) |-> r[k].id]
    /\ dn_pc' = "done"
    /\ UNCHANGED dn_names
    /\ UNCHANGED <<exVars, tkVars, anVars, seVars, feVars, lkVars>>

InitIds == IdsInit /\ ExclIdle /\ TokIdle /\ AnIdle /\ SessIdle
    /\ FindIdle /\ LinkIdle
NextIds == DeriveIds
SpecIds == InitIds /\ [][NextIds]_vars

-----------------------------------------------------------------------------
NoAnalysis == [cached |-> FALSE, report |-> DefaultReport]
NoMetadata == [set |-> FALSE, name |-> "", display_name |-> ""]
DefaultWineConfig == [mode |-> "system", system_min_version |-> "", bundled_path |-> ""]
NoManifest ==
    [written |-> FALSE, app |-> NoMetadata, wine |-> DefaultWineConfig,
     prefix |-> [original_user |-> "", original_path |-> "", normalized_user |-> ""],
     executables |-> <<>>, excluded_patterns |-> <<>>]
\* manifest.json: absent, or the JSON object written into it
NoFile == [exists |-> FALSE, data |-> <<>>]
NoOutput ==
    [exported |-> "no", staged |-> {}, icons |-> {}, attempts |-> <<>>, wine |-> {},
     manifest |-> NoManifest, file |-> NoFile]

\* PackageSpec.load was not called
NoLoaded == [called |-> FALSE, err |-> "", spec |-> NoManifest]

\* PrefixCapture.analyze: the outcomes of the call (the cached report if any)
session_analyze(cache, tree) ==
    IF cache.cached THEN {Returned(cache.report)} ELSE analyze("dir", tree)

\* A plausible slip: normalize does not look at the report's validity.
normalize_passes_novalid(report, exes) == exes # <<>>

\* normalize's two checks: neither raises
normalize_passes(report, exes) == report.is_valid_prefix /\ exes # <<>>

\* A plausible slip: normalize does not ask for an executable (the default
\* metadata is then taken from an empty list: IndexError).
normalize_noexecheck(o, cache, exes, meta, norm) ==
    IF o.raised # ""
    THEN [err |-> o.raised, analysis |-> cache, app_metadata |-> meta, normalized |-> norm]
    ELSE IF ~o.report.is_valid_prefix
    THEN [err |-> "CaptureError", analysis |-> [cached |-> TRUE, report |-> o.report],
          app_metadata |-> meta, normalized |-> norm]
    ELSE IF ~meta.set /\ exes = <<>>
    THEN [err |-> "IndexError", analysis |-> [cached |-> TRUE, report |-> o.report],
          app_metadata |-> meta, normalized |-> norm]
    ELSE [err |-> "", analysis |-> [cached |-> TRUE, report |-> o.report],
          app_metadata |-> IF meta.set THEN meta
                           ELSE [set |-> TRUE, name |-> derive_name(exes[1].name),
                                 display_name |-> exes[1].name],
          normalized |-> TRUE]

\* PrefixCapture.normalize, given the outcome o of self.analyze(): the error
\* raised ("" for none) and the fields of the session afterwards.
normalize(o, cache, exes, meta, norm) ==
    IF o.raised # ""
    THEN [err |-> o.raised, analysis |-> cache, app_metadata |-> meta, normalized |-> norm]
    ELSE IF ~normalize_passes(o.report, exes)
    THEN [err |-> "CaptureError", analysis |-> [cached |-> TRUE, report |-> o.report],
          app_metadata |-> meta, normalized |-> norm]
    ELSE [err |-> "", analysis |-> [cached |-> TRUE, report |-> o.report],
          app_metadata |-> IF meta.set THEN meta
                           ELSE [set |-> TRUE, name |-> derive_name(exes[1].name),
                                 display_name |-> exes[1].name],
          normalized |-> TRUE]

\* dest.parent.mkdir(parents=True, exist_ok=True): the directories it makes sure of
RECURSIVE Ancestors(_)
Ancestors(p) ==
    IF PathParent(p) = "" THEN {}
    ELSE {Dir(PathParent(p))} \cup Ancestors(PathParent(p))

\* A plausible slip: an ordinary link is copied whatever its target.
handle_symlink_keepabs(rel_path, target) ==
    IF Contains(rel_path, "dosdevices")
    THEN IF PathName(rel_path) = "c:" THEN {Link(rel_path, "../drive_c")}
         ELSE IF PathName(rel_path) = "z:" THEN {}
         ELSE IF ~StartsWith(target, "/") THEN {Link(rel_path, target)} ELSE {}
    ELSE {Link(rel_path, target)}

\* A plausible slip: the z: link is treated like any other drive letter.
handle_symlink_keepz(rel_path, target) ==
    IF Contains(rel_path, "dosdevices")
    THEN IF PathName(rel_path) = "c:" THEN {Link(rel_path, "../drive_c")}
         ELSE IF ~StartsWith(target, "/") THEN {Link(rel_path, target)} ELSE {}
    ELSE IF ~StartsWith(target, "/") THEN {Link(rel_path, target)} ELSE {}

\* _handle_symlink: the link it creates in the staged tree, if any
handle_symlink(rel_path, target) ==
    IF Contains(rel_path, "dosdevices")
    THEN IF PathName(rel_path) = "c:" THEN {Link(rel_path, "../drive_c")}
         ELSE IF PathName(rel_path) = "z:" THEN {}
         ELSE IF ~StartsWith(target, "/") THEN {Link(rel_path, target)} ELSE {}
    ELSE IF ~StartsWith(target, "/") THEN {Link(rel_path, target)} ELSE {}

\* The links _handle_symlink is called for, and what they point to.
LinkPaths ==
    {"dosdevices/c:", "dosdevices/z:", "dosdevices/d:", "dosdevices/com1",
     "drive_c/users/alice/Desktop", "drive_c/Games/data",
     "drive_c/dosdevices.bak/c:", "drive_c/Games/dosdevices/z:",
     "drive_c/users/alice/dosdevices notes"}
LinkTargetInputs ==
    {"/", "/mnt/data", "/home/alice/Desktop", "../drive_c", "../data", "../Desktop", "data"}

LinkInit ==
    /\ lk_path \in LinkPaths
    /\ lk_target \in LinkTargetInputs
    /\ lk_result = {}
    /\ lk_pc = "init"

\* self._handle_symlink(src_path, dest_path, rel_path)
HandleSymlink ==
    /\ lk_pc = "init"
    /\ lk_result' = handle_symlink(lk_path, lk_target)
    /\ lk_pc' = "done"
    /\ UNCHANGED <<lk_path, lk_target>>
    /\ UNCHANGED <<exVars, tkVars, anVars, seVars, dnVars, feVars>>

InitLink == LinkInit /\ ExclIdle /\ TokIdle /\ AnIdle /\ SessIdle /\ IdsIdle /\ FindIdle
NextLink == HandleSymlink
SpecLink == InitLink /\ [][NextLink]_vars

\* The body of _copy_prefix's loop for one entry of rglob("*")
copy_entry(e) ==
    IF e.kind = "link"
    THEN LET made == handle_symlink(e.path, e.data)
         IN  IF made = {} THEN {} ELSE made \cup Ancestors(e.path)
    ELSE IF e.kind \in {"dir", "xdir"}
    THEN {Dir(e.path)} \cup Ancestors(e.path)
    ELSE {e} \cup Ancestors(e.path)

\* _copy_prefix into a fresh destination: rglob("*") yields every entry of the
\* tree (a link to a directory is not descended into).
copy_prefix(tree, patterns) ==
    UNION {copy_entry(e) : e \in {x \in tree : ~should_exclude(patterns, x.path)}}

REG_FILES == {"system.reg", "user.reg", "userdef.reg"}

\* _tokenize_registry on the staged tree
tokenize_registry(staged, original_user) ==
    IF original_user = NoUser THEN staged
    ELSE { IF e.path \in REG_FILES /\ e.kind = "file"
           THEN [e EXCEPT !.data = tokenize_content(e.data, original_user)]
           ELSE e : e \in staged }

\* Path.rename of a directory: the entry and everything below it moves
Renamed(staged, old, new) ==
    { IF e.path = old THEN [e EXCEPT !.path = new]
      ELSE IF StartsWith(e.path, old \o "/")
      THEN [e EXCEPT !.path = new \o SubSeq(e.path, Len(old) + 1, Len(e.path))]
      ELSE e : e \in staged }

\* _normalize_user_dir on the staged tree
normalize_user_dir(staged, original_user) ==
    IF original_user = NoUser THEN staged
    ELSE LET old == Join(USERS_DIR, original_user)
             new == Join(USERS_DIR, USER_TOKEN)
         IN  IF Has(staged, old) /\ ~Has(staged, new)
             THEN Renamed(staged, old, new) ELSE staged

IconRef(id) == "icons/" \o id \o ".png"

\* A plausible slip: the executable is tried first, the custom icon is the fallback.
icon_method_extractfirst(exe, tree) ==
    IF full_path_exists(tree, exe.icon_source) THEN "extract"
    ELSE IF exe.custom_icon_path # "" THEN "copy"
    ELSE "none"

\* _extract_icons: what is attempted for one executable (shutil.copy2 of the
\* custom icon, extract_icon from the icon source, or nothing)
icon_method(exe, tree) ==
    IF exe.custom_icon_path # "" THEN "copy"
    ELSE IF full_path_exists(tree, exe.icon_source) THEN "extract"
    ELSE "none"

\* shutil.copy2 / extract_icon returns having written the icon file; `fails`
\* tells whether the call raises (unreadable or vanished file, no icon in the
\* executable, missing library)
icon_written(exe, tree, fails) ==
    \/ icon_method(exe, tree) = "copy" /\ exe.custom_icon_path \in OutsideFiles /\ ~fails
    \/ icon_method(exe, tree) = "extract" /\ ~fails

\* _extract_icons for one executable: the executable afterwards
extract_icon_for(exe, tree, fails) ==
    IF icon_method(exe, tree) = "none" THEN exe
    ELSE IF icon_written(exe, tree, fails) THEN [exe EXCEPT !.icon = IconRef(exe.id)]
    ELSE [exe EXCEPT !.icon = ""]

\* _extract_icons: the executables afterwards; the attempt fails for `failing`
extract_icons(exes, tree, failing) ==
    [k \in 1..Len(exes) |-> extract_icon_for(exes[k], tree, k \in failing)]

\* the files _extract_icons leaves in the icon directory
icon_files(exes, tree, failing) ==
    {"icons/" \o exes[k].id \o ".png" :
        k \in {i \in 1..Len(exes) : icon_written(exes[i], tree, i \in failing)}}

\* what _extract_icons attempted, executable by executable
icon_attempts(exes, tree) == [k \in 1..Len(exes) |-> icon_method(exes[k], tree)]

\* A plausible slip: a runtime path that is not there is skipped like an unset one.
bundle_wine_skipmissing(cfg) ==
    IF cfg.mode # "bundled" \/ cfg.bundled_path = "" \/ cfg.bundled_path \notin OutsideDirs
    THEN [err |-> "", wine_config |-> cfg, wine |-> {}]
    ELSE [err |-> "",
          wine_config |-> [cfg EXCEPT !.bundled_path = "wine/" \o PathName(cfg.bundled_path)],
          wine |-> {"wine/" \o PathName(cfg.bundled_path)}]

\* _bundle_wine: [err, wine_config, wine] (wine: what the wine directory holds)
bundle_wine(cfg) ==
    IF cfg.mode # "bundled" \/ cfg.bundled_path = ""
    THEN [err |-> "", wine_config |-> cfg, wine |-> {}]
    ELSE IF cfg.bundled_path \notin OutsideDirs
    THEN [err |-> "CaptureError", wine_config |-> cfg, wine |-> {}]
    ELSE [err |-> "",
          wine_config |-> [cfg EXCEPT !.bundled_path = "wine/" \o PathName(cfg.bundled_path)],
          wine |-> {"wine/" \o PathName(cfg.bundled_path)}]

\* _generate_spec (the flag `written`: spec.save follows)
generate_spec(report, meta, cfg, exes, patterns) ==
    [written |-> TRUE, app |-> meta, wine |-> cfg,
     prefix |-> [original_user |-> IF report.detected_user = NoUser THEN "user"
                                   ELSE report.detected_user,
                 original_path |-> PREFIX_PATH,
                 normalized_user |-> USER_TOKEN],
     executables |-> exes, excluded_patterns |-> patterns]

-----------------------------------------------------------------------------
(* manifest.json: spec.py, PackageSpec.save and PackageSpec.load             *)

\* JSON values: strings and null; objects are records, arrays are sequences
JString(s) == [type |-> "string", value |-> s]
JNull == [type |-> "null", value |-> ""]
\* an Optional[str] field (None is "" in the model)
JOptional(s) == IF s = "" THEN JNull ELSE JString(s)
FromJOptional(j) == IF j.type = "null" THEN "" ELSE j.value

\* Executable: the declared fields; the attributes add_executable attaches
\* (_icon_source, _custom_icon_path) are no fields and are not dumped
dump_executable(exe) ==
    [id |-> JString(exe.id), name |-> JString(exe.name), path |-> JString(exe.path),
     icon |-> JOptional(exe.icon)]

\* A plausible slip: the exclusion patterns are left out of the dump.
model_dump_json_nopatterns(spec) ==
    [app |-> [name |-> JString(spec.app.name),
              display_name |-> JString(spec.app.display_name)],
     wine |-> [mode |-> JString(spec.wine.mode),
               system_min_version |-> JOptional(spec.wine.system_min_version),
               bundled_path |-> JOptional(spec.wine.bundled_path)],
     prefix |-> [original_user |-> JString(spec.prefix.original_user),
                 original_path |-> JString(spec.prefix.original_path),
                 normalized_user |-> JString(spec.prefix.normalized_user)],
     executables |-> [k \in 1..Len(spec.executables) |->
                         dump_executable(spec.executables[k])]]

\* self.model_dump_json(): every field of the model, in declaration order
model_dump_json(spec) ==
    [app |-> [name |-> JString(spec.app.name),
              display_name |-> JString(spec.app.display_name)],
     wine |-> [mode |-> JString(spec.wine.mode),
               system_min_version |-> JOptional(spec.wine.system_min_version),
               bundled_path |-> JOptional(spec.wine.bundled_path)],
     prefix |-> [original_user |-> JString(spec.prefix.original_user),
                 original_path |-> JString(spec.prefix.original_path),
                 normalized_user |-> JString(spec.prefix.normalized_user)],
     executables |-> [k \in 1..Len(spec.executables) |->
                         dump_executable(spec.executables[k])],
     excluded_patterns |-> [k \in 1..Len(spec.excluded_patterns) |->
                               JString(spec.excluded_patterns[k])]]

\* PackageSpec.save
save(spec) == [exists |-> TRUE, data |-> model_dump_json(spec)]

\* the default of PackageSpec.excluded_patterns
SPEC_EXCLUDED_PATTERNS == <<
    "*.dxvk-cache",
    "*.log",
    "mesa_shader_cache/**",
    "nvidiav1/**",
    "GLCache/**",
    "drive_c/users/*/Temp/**" >>

validate_executable(j) ==
    [id |-> j.id.value, name |-> j.name.value, path |-> j.path.value,
     icon |-> FromJOptional(j.icon)]

\* cls.model_validate(data): [err, spec]; app and prefix are required, the
\* other fields have defaults
model_validate(data) ==
    IF ~({"app", "prefix"} \subseteq DOMAIN data)
    THEN [err |-> "ValidationError", spec |-> NoManifest]
    ELSE [err |-> "",
          spec |->
            [written |-> TRUE,
             app |-> [set |-> TRUE, name |-> data.app.name.value,
                      display_name |-> data.app.display_name.value],
             wine |-> IF "wine" \in DOMAIN data
                      THEN [mode |-> data.wine.mode.value,
                            system_min_version |->
                                FromJOptional(data.wine.system_min_version),
                            bundled_path |-> FromJOptional(data.wine.bundled_path)]
                      ELSE DefaultWineConfig,
             prefix |-> [original_user |-> data.prefix.original_user.value,
                         original_path |-> data.prefix.original_path.value,
                         normalized_user |-> data.prefix.normalized_user.value],
             executables |-> IF "executables" \in DOMAIN data
                             THEN [k \in 1..Len(data.executables) |->
                                      validate_executable(data.executables[k])]
                             ELSE <<>>,
             excluded_patterns |-> IF "excluded_patterns" \in DOMAIN data
                                   THEN [k \in 1..Len(data.excluded_patterns) |->
                                            data.excluded_patterns[k].value]
                                   ELSE SPEC_EXCLUDED_PATTERNS]]

\* PackageSpec.load of a file that exists
load(file) == model_validate(file.data)

\* wineboot -u on the prefix, when it runs: it completes a prefix that has no
\* user profile yet (the build user's) and otherwise leaves the tree as it is.
BUILD_USER == "alice"
wineboot_update(tree) ==
    IF KindAt(tree, DRIVE_C) = "dir" /\ ~Has(tree, USERS_DIR)
    THEN tree \cup {Dir(USERS_DIR), Dir(Join(USERS_DIR, BUILD_USER))}
    ELSE tree

\* _update_prefix_with_wineboot: the source tree afterwards.  Every failure
\* (timeout, wineboot not found, any other exception) is caught and leaves the
\* tree as it was; so does a run with nothing to update.
update_prefix_with_wineboot(tree) == {tree, wineboot_update(tree)}

\* How the wineboot run of _update_prefix_with_wineboot can end
WINEBOOT_KINDS == {"updated", "nonzero", "timeout", "not_found", "error"}

\* A plausible slip: the timeout of the wineboot run is not caught.
wineboot_outcomes_raises(tree) ==
    { [kind |-> k, err |-> IF k = "timeout" THEN "TimeoutExpired" ELSE "", tree |-> t] :
        k \in WINEBOOT_KINDS,
        t \in update_prefix_with_wineboot(tree) }
    \ { w \in [kind : {"not_found"}, err : {""}, tree : {wineboot_update(tree)}] :
           w.tree # tree }

\* _update_prefix_with_wineboot by outcome: [kind, err, tree]; err is what the
\* call raises (every exception is caught), tree the source afterwards (a run
\* that did not start changes nothing, any other may have updated it)
wineboot_outcomes(tree) ==
    { [kind |-> k, err |-> "", tree |-> t] :
        k \in WINEBOOT_KINDS,
        t \in update_prefix_with_wineboot(tree) }
    \ { w \in [kind : {"not_found"}, err : {""}, tree : {wineboot_update(tree)}] :
           w.tree # tree }

\* The stages of export that build the staged tree: _copy_prefix, then
\* _tokenize_registry, then _normalize_user_dir.
stage_prefix(tree, patterns, original_user) ==
    normalize_user_dir(tokenize_registry(copy_prefix(tree, patterns), original_user),
                       original_user)

-----------------------------------------------------------------------------
(* The sessions of the model                                               *)

\* At most this many executables are added to a session.
MaxExes == 2

REG_TEXT_SYSTEM == "C:\\\\users\\\\alice\\\\Desktop"
REG_TEXT_USER   == "Z:\\home\\alice\\bin"

\* A source prefix: what drive_c is ("dir", "file" or "absent"), whether
\* system.reg is there, what drive_c/users is, the target of dosdevices/z: (""
\* for no link) and whether the other links (dosdevices/c:, dosdevices/d:, the
\* user's Desktop) have absolute or relative targets.
MkSource(drive_c, has_system_reg, users, zdrive, abs_links) ==
    (IF drive_c = "dir"
     THEN {Dir(DRIVE_C), Dir("drive_c/Games"), File("drive_c/Games/game.exe", ""),
           File("drive_c/a.log", "")}
          \cup UsersPart(users, {"alice", "Public"},
                         IF abs_links THEN "/home/alice/Desktop" ELSE "../Desktop")
     ELSE IF drive_c = "file" THEN {File(DRIVE_C, "")}
     ELSE {})
    \cup (IF has_system_reg THEN {File(SYSTEM_REG, REG_TEXT_SYSTEM)} ELSE {})
    \cup {File(USER_REG, REG_TEXT_USER), Dir("dosdevices"),
          Link("dosdevices/c:", IF abs_links THEN "/home/alice/.wine-myapp/drive_c"
                                ELSE "../drive_c"),
          Link("dosdevices/d:", IF abs_links THEN "/mnt/data" ELSE "../data")}
    \cup (IF zdrive # "" THEN {Link(Z_DRIVE, zdrive)} ELSE {})

SessTrees ==
    { MkSource("dir", TRUE, "dir", "/", TRUE),
      MkSource("dir", TRUE, "dir", "/mnt/root", FALSE),
      MkSource("dir", TRUE, "dir", "..", FALSE),
      MkSource("dir", TRUE, "dir", "", TRUE),
      MkSource("dir", TRUE, "absent", "/", TRUE),
      MkSource("dir", TRUE, "file", "/", TRUE),
      MkSource("absent", TRUE, "absent", "", FALSE),
      MkSource("file", TRUE, "absent", "..", FALSE),
      MkSource("dir", FALSE, "dir", "", FALSE) }

\* The arguments of the add_executable calls of the model.
ExeInputs ==
    { [id |-> "game", name |-> "My Game", path |-> "drive_c/Games/game.exe",
       custom_icon_path |-> ""],
      [id |-> "tool", name |-> "Tool", path |-> "drive_c/missing.exe",
       custom_icon_path |-> ""],
      [id |-> "tool", name |-> "Tool", path |-> "drive_c/Games/game.exe",
       custom_icon_path |-> "/icons/missing.png"],
      [id |-> "wine", name |-> "Wine", path |-> "/usr/bin/wine",
       custom_icon_path |-> "/icons/ok.png"] }

WineInputs ==
    { [mode |-> "system", system_min_version |-> "9.0", bundled_path |-> ""],
      [mode |-> "bundled", system_min_version |-> "", bundled_path |-> "/opt/wine-9"],
      [mode |-> "bundled", system_min_version |-> "", bundled_path |-> "/opt/gone"],
      [mode |-> "bundled", system_min_version |-> "", bundled_path |-> ""] }

ExclusionInputs == {"*.reg"}

Call(op, path, icon, err) == [op |-> op, path |-> path, icon |-> icon, err |-> err]

\* PrefixCapture(prefix_path, update_prefix) on an existing path
SessInit ==
    /\ src \in SessTrees
    /\ update_prefix \in BOOLEAN
    /\ analysis = NoAnalysis
    /\ executables = <<>>
    /\ wine_config = DefaultWineConfig
    /\ app_metadata = NoMetadata
    /\ exclusions = DEFAULT_EXCLUSIONS
    /\ normalized = FALSE
    /\ out = NoOutput
    /\ last = Call("init", "", "", "")
    /\ loaded = NoLoaded
    /\ pl_pc = "idle"
    /\ pl_done = <<>>

\* A session is used for one export.
Open == out.exported = "no" /\ pl_pc = "idle"

\* capture.analyze()
SessAnalyze ==
    /\ Open
    /\ \E o \in session_analyze(analysis, src) :
          /\ analysis' = IF o.raised = "" THEN [cached |-> TRUE, report |-> o.report]
                         ELSE analysis
          /\ last' = Call("analyze", "", "", o.raised)
    /\ UNCHANGED <<src, update_prefix, executables, wine_config, app_metadata,
                   exclusions, normalized, out>>
    /\ UNCHANGED <<loaded, pl_pc, pl_done>>
    /\ UNCHANGED <<exVars, tkVars, anVars, dnVars, feVars, lkVars>>

\* capture.add_executable(id, name, path, custom_icon_path=...)
AddExecutable ==
    /\ Open
    /\ \E in \in ExeInputs :
          IF add_executable_accepts(src, in.path, in.custom_icon_path)
          THEN /\ Len(executables) < MaxExes
               /\ executables' = Append(executables, NewExecutable(in))
               /\ last' = Call("add_executable", in.path, in.custom_icon_path, "")
          ELSE /\ executables' = executables
               /\ last' = Call("add_executable", in.path, in.custom_icon_path,
                               "CaptureError")
    /\ UNCHANGED <<src, update_prefix, analysis, wine_config, app_metadata,
                   exclusions, normalized, out>>
    /\ UNCHANGED <<loaded, pl_pc, pl_done>>
    /\ UNCHANGED <<exVars, tkVars, anVars, dnVars, feVars, lkVars>>

\* capture.set_wine_mode(mode, min_version=..., bundled_wine_path=...): the
\* configuration is assigned before the bundled-path check raises.  (A step of
\* SpecRuntime, not of Spec.)
SetWineMode ==
    /\ Open
    /\ \E in \in WineInputs :
          /\ wine_config' = in
          /\ last' = Call("set_wine_mode", in.bundled_path, "",
                          IF in.mode = "bundled" /\ in.bundled_path = ""
                          THEN "CaptureError" ELSE "")
    /\ UNCHANGED <<src, update_prefix, analysis, executables, app_metadata,
                   exclusions, normalized, out>>
    /\ UNCHANGED <<loaded, pl_pc, pl_done>>
    /\ UNCHANGED <<exVars, tkVars, anVars, dnVars, feVars, lkVars>>

\* capture.set_app_metadata(name, display_name).  (A step of SpecRuntime.)
SetAppMetadata ==
    /\ Open
    /\ app_metadata' = [set |-> TRUE, name |-> "myapp", display_name |-> "My App"]
    /\ last' = Call("set_app_metadata", "", "", "")
    /\ UNCHANGED <<src, update_prefix, analysis, executables, wine_config,
                   exclusions, normalized, out>>
    /\ UNCHANGED <<loaded, pl_pc, pl_done>>
    /\ UNCHANGED <<exVars, tkVars, anVars, dnVars, feVars, lkVars>>

InList(x, list) == \E k \in 1..Len(list) : list[k] = x

\* list.remove(x): the first occurrence goes
RemoveFirst(list, x) ==
    LET k == CHOOSE i \in 1..Len(list) :
                 list[i] = x /\ \A j \in 1..(i - 1) : list[j] # x
    IN  SubSeq(list, 1, k - 1) \o SubSeq(list, k + 1, Len(list))

\* capture.add_exclusion(pattern)
AddExclusion ==
    /\ Open
    /\ \E pattern \in ExclusionInputs :
          /\ exclusions' = IF InList(pattern, exclusions) THEN exclusions
                           ELSE Append(exclusions, pattern)
          /\ last' = Call("add_exclusion", "", "", "")
    /\ UNCHANGED <<src, update_prefix, analysis, executables, wine_config,
                   app_metadata, normalized, out>>
    /\ UNCHANGED <<loaded, pl_pc, pl_done>>
    /\ UNCHANGED <<exVars, tkVars, anVars, dnVars, feVars, lkVars>>

\* capture.remove_exclusion(pattern)
RemoveExclusion ==
    /\ Open
    /\ \E pattern \in ExclusionInputs :
          /\ exclusions' = IF InList(pattern, exclusions)
                           THEN RemoveFirst(exclusions, pattern) ELSE exclusions
          /\ last' = Call("remove_exclusion", "", "", "")
    /\ UNCHANGED <<src, update_prefix, analysis, executables, wine_config,
                   app_metadata, normalized, out>>
    /\ UNCHANGED <<loaded, pl_pc, pl_done>>
    /\ UNCHANGED <<exVars, tkVars, anVars, dnVars, feVars, lkVars>>

\* capture.normalize()
Normalize ==
    /\ Open
    /\ \E o \in session_analyze(analysis, src) :
          LET r == normalize(o, analysis, executables, app_metadata, normalized)
          IN  /\ analysis' = r.analysis
              /\ app_metadata' = r.app_metadata
              /\ normalized' = r.normalized
              /\ last' = Call("normalize", "", "", r.err)
    /\ UNCHANGED <<src, update_prefix, executables, wine_config, exclusions, out>>
    /\ UNCHANGED <<loaded, pl_pc, pl_done>>
    /\ UNCHANGED <<exVars, tkVars, anVars, dnVars, feVars, lkVars>>

\* capture.export(output_path) into a fresh destination.  `o` is the outcome of
\* the analyze() call of normalize() when that runs, `tree` the source after the
\* warm-up step, `failing` the executables whose icon extraction fails.
Export ==
    /\ Open
    /\ \E o \in session_analyze(analysis, src) :
          LET n == IF normalized
                   THEN [err |-> "", analysis |-> analysis,
                         app_metadata |-> app_metadata, normalized |-> TRUE]
                   ELSE normalize(o, analysis, executables, app_metadata, normalized)
              \* analysis = self.analyze(): the report normalize cached
              report == n.analysis.report
              b == bundle_wine(wine_config)
          IN  IF n.err # ""
              THEN /\ analysis' = n.analysis
                   /\ last' = Call("export", "", "", n.err)
                   /\ UNCHANGED <<src, executables, wine_config, app_metadata,
                                  normalized, out>>
              ELSE \E tree \in (IF update_prefix THEN update_prefix_with_wineboot(src)
                                ELSE {src}) :
                   \E staged \in {stage_prefix(tree, exclusions, report.detected_user)} :
                   \E failing \in SUBSET (1..Len(executables)) :
                      LET exes == extract_icons(executables, tree, failing)
                      IN  /\ src' = tree
                          /\ analysis' = n.analysis
                          /\ app_metadata' = n.app_metadata
                          /\ normalized' = TRUE
                          /\ executables' = exes
                          /\ wine_config' = b.wine_config
                          /\ out' = [exported |-> IF b.err = "" THEN "ok" ELSE "failed",
                                     staged |-> staged,
                                     icons |-> icon_files(executables, tree, failing),
                                     attempts |-> icon_attempts(executables, tree),
                                     wine |-> b.wine,
                                     file |->
                                        IF b.err # "" THEN NoFile
                                        ELSE save(generate_spec(report, n.app_metadata,
                                                 b.wine_config, exes, exclusions)),
                                     manifest |->
                                        IF b.err # "" THEN NoManifest
                                        ELSE generate_spec(report, n.app_metadata,
                                                 b.wine_config, exes, exclusions)]
                          /\ last' = Call("export", "", "", b.err)
    /\ UNCHANGED <<update_prefix, exclusions>>
    /\ UNCHANGED <<loaded, pl_pc, pl_done>>
    /\ UNCHANGED <<exVars, tkVars, anVars, dnVars, feVars, lkVars>>

Init == SessInit /\ ExclIdle /\ TokIdle /\ AnIdle /\ IdsIdle
    /\ FindIdle /\ LinkIdle
\* PackageSpec.load(output_dir), once the export wrote manifest.json
Load ==
    /\ out.file.exists
    /\ ~loaded.called
    /\ LET l == load(out.file)
       IN  loaded' = [called |-> TRUE, err |-> l.err, spec |-> l.spec]
    /\ UNCHANGED <<src, update_prefix, analysis, executables, wine_config, app_metadata,
                   exclusions, normalized, out, last, pl_pc, pl_done>>
    /\ UNCHANGED <<exVars, tkVars, anVars, dnVars, feVars, lkVars>>

Next ==
    \/ SessAnalyze
    \/ AddExecutable
    \/ AddExclusion
    \/ RemoveExclusion
    \/ Normalize
    \/ Export
    \/ Load
Spec == Init /\ [][Next]_vars

\* A session that also chooses the runtime mode and the application metadata,
\* over one source prefix and without the warm-up.
RuntimeTrees == { MkSource("dir", TRUE, "dir", "/", TRUE) }

InitRuntime == Init /\ src \in RuntimeTrees /\ ~update_prefix
NextRuntime ==
    \/ AddExecutable
    \/ SetWineMode
    \/ SetAppMetadata
    \/ Normalize
    \/ Export
    \/ Load
SpecRuntime == InitRuntime /\ [][NextRuntime]_vars

\* Sessions over prefixes whose per-user directory holds an executable, with and
\* without a directory already named like the token, and with exclusion patterns
\* that name a directory; no warm-up.
UserTree(with_token) ==
    MkSource("dir", TRUE, "dir", "", FALSE)
    \cup {Dir("drive_c/users/alice/App"), File("drive_c/users/alice/App/app.exe", "")}
    \cup (IF with_token THEN {Dir(Join(USERS_DIR, USER_TOKEN))} ELSE {})

StagedTrees == {UserTree(FALSE), UserTree(TRUE)}

\* The arguments of the add_executable calls of these sessions.
StagedExeInputs ==
    { [id |-> "game", name |-> "My Game", path |-> "drive_c/Games/game.exe",
       custom_icon_path |-> ""],
      [id |-> "app", name |-> "App", path |-> "drive_c/users/alice/App/app.exe",
       custom_icon_path |-> ""] }

\* The arguments of the add_exclusion calls of these sessions.
StagedExclusionInputs == {"drive_c/Games", "drive_c/Games*"}

\* PrefixCapture(prefix_path, update_prefix=False) on one of these prefixes
StagedInit ==
    /\ src \in StagedTrees
    /\ update_prefix = FALSE
    /\ analysis = NoAnalysis
    /\ executables = <<>>
    /\ wine_config = DefaultWineConfig
    /\ app_metadata = NoMetadata
    /\ exclusions = DEFAULT_EXCLUSIONS
    /\ normalized = FALSE
    /\ out = NoOutput
    /\ last = Call("init", "", "", "")
    /\ loaded = NoLoaded
    /\ pl_pc = "idle"
    /\ pl_done = <<>>

\* capture.add_executable(id, name, path) with these arguments
StagedAddExecutable ==
    /\ Open
    /\ \E in \in StagedExeInputs :
          IF add_executable_accepts(src, in.path, in.custom_icon_path)
          THEN /\ Len(executables) < MaxExes
               /\ executables' = Append(executables, NewExecutable(in))
               /\ last' = Call("add_executable", in.path, in.custom_icon_path, "")
          ELSE /\ executables' = executables
               /\ last' = Call("add_executable", in.path, in.custom_icon_path,
                               "CaptureError")
    /\ UNCHANGED <<src, update_prefix, analysis, wine_config, app_metadata,
                   exclusions, normalized, out>>
    /\ UNCHANGED <<loaded, pl_pc, pl_done>>
    /\ UNCHANGED <<exVars, tkVars, anVars, dnVars, feVars, lkVars>>

\* capture.add_exclusion(pattern) with these patterns
StagedAddExclusion ==
    /\ Open
    /\ \E pattern \in StagedExclusionInputs :
          /\ exclusions' = IF InList(pattern, exclusions) THEN exclusions
                           ELSE Append(exclusions, pattern)
          /\ last' = Call("add_exclusion", "", "", "")
    /\ UNCHANGED <<src, update_prefix, analysis, executables, wine_config,
                   app_metadata, normalized, out>>
    /\ UNCHANGED <<loaded, pl_pc, pl_done>>
    /\ UNCHANGED <<exVars, tkVars, anVars, dnVars, feVars, lkVars>>

InitStaged == StagedInit /\ ExclIdle /\ TokIdle /\ AnIdle /\ IdsIdle
    /\ FindIdle /\ LinkIdle
NextStaged ==
    \/ StagedAddExecutable
    \/ StagedAddExclusion
    \/ Export
SpecStaged == InitStaged /\ [][NextStaged]_vars

-----------------------------------------------------------------------------
(* export, stage by stage                                                  *)

\* A plausible slip: the manifest is written before the runtime is bundled.
export_stages_manifestearly ==
    <<"warmup", "copy", "tokenize", "rename", "icons", "manifest", "bundle">>

\* The stages of export after normalization, in the order of its body
export_stages ==
    <<"warmup", "copy", "tokenize", "rename", "icons", "bundle", "manifest">>

\* `if self._update_prefix:` and `if self._wine_config.mode == WineMode.BUNDLED:`
stage_runs(stage) ==
    /\ stage = "warmup" => update_prefix
    /\ stage = "bundle" => wine_config.mode = "bundled"

\* The first stage from position i on that runs; "idle" when export returns
RECURSIVE stage_from(_)
stage_from(i) ==
    IF i > Len(export_stages) THEN "idle"
    ELSE IF stage_runs(export_stages[i]) THEN export_stages[i]
    ELSE stage_from(i + 1)

StageAfter(stage) ==
    stage_from(1 + CHOOSE i \in 1..Len(export_stages) : export_stages[i] = stage)

Ran(stage, result) == [stage |-> stage, result |-> result]

\* export up to and including `if not self._normalized: self.normalize()`
ExportBegin ==
    /\ Open
    /\ \E o \in session_analyze(analysis, src) :
          LET n == IF normalized
                   THEN [err |-> "", analysis |-> analysis,
                         app_metadata |-> app_metadata, normalized |-> TRUE]
                   ELSE normalize(o, analysis, executables, app_metadata, normalized)
          IN  /\ analysis' = n.analysis
              /\ IF n.err # ""
                 THEN /\ last' = Call("export", "", "", n.err)
                      /\ UNCHANGED <<app_metadata, normalized, pl_pc>>
                 ELSE /\ app_metadata' = n.app_metadata
                      /\ normalized' = TRUE
                      /\ pl_pc' = stage_from(1)
                      /\ UNCHANGED last
    /\ UNCHANGED <<src, update_prefix, executables, wine_config, exclusions, out,
                   loaded, pl_done>>
    /\ UNCHANGED <<exVars, tkVars, anVars, dnVars, feVars, lkVars>>

\* self._update_prefix_with_wineboot()
Warmup ==
    /\ pl_pc = "warmup"
    /\ \E w \in wineboot_outcomes(src) :
          IF w.err # ""
          THEN /\ pl_done' = Append(pl_done, Ran("warmup", "fatal"))
               /\ pl_pc' = "idle"
               /\ out' = [out EXCEPT !.exported = "failed"]
               /\ last' = Call("export", "", "", w.err)
               /\ UNCHANGED src
          ELSE /\ src' = w.tree
               /\ pl_done' = Append(pl_done, Ran("warmup", w.kind))
               /\ pl_pc' = StageAfter("warmup")
               /\ UNCHANGED <<out, last>>
    /\ UNCHANGED <<update_prefix, analysis, executables, wine_config, app_metadata,
                   exclusions, normalized, loaded>>
    /\ UNCHANGED <<exVars, tkVars, anVars, dnVars, feVars, lkVars>>

\* self._copy_prefix(prefix_template, ...)
CopyPrefix ==
    /\ pl_pc = "copy"
    /\ out' = [out EXCEPT !.staged = copy_prefix(src, exclusions)]
    /\ pl_done' = Append(pl_done, Ran("copy", "ok"))
    /\ pl_pc' = StageAfter("copy")
    /\ UNCHANGED <<src, update_prefix, analysis, executables, wine_config, app_metadata,
                   exclusions, normalized, last, loaded>>
    /\ UNCHANGED <<exVars, tkVars, anVars, dnVars, feVars, lkVars>>

\* self._tokenize_registry(prefix_template, analysis.detected_user)
TokenizeRegistry ==
    /\ pl_pc = "tokenize"
    /\ out' = [out EXCEPT
                 !.staged = tokenize_registry(out.staged, analysis.report.detected_user)]
    /\ pl_done' = Append(pl_done, Ran("tokenize", "ok"))
    /\ pl_pc' = StageAfter("tokenize")
    /\ UNCHANGED <<src, update_prefix, analysis, executables, wine_config, app_metadata,
                   exclusions, normalized, last, loaded>>
    /\ UNCHANGED <<exVars, tkVars, anVars, dnVars, feVars, lkVars>>

\* self._normalize_user_dir(prefix_template, analysis.detected_user)
NormalizeUserDir ==
    /\ pl_pc = "rename"
    /\ out' = [out EXCEPT
                 !.staged = normalize_user_dir(out.staged, analysis.report.detected_user)]
    /\ pl_done' = Append(pl_done, Ran("rename", "ok"))
    /\ pl_pc' = StageAfter("rename")
    /\ UNCHANGED <<src, update_prefix, analysis, executables, wine_config, app_metadata,
                   exclusions, normalized, last, loaded>>
    /\ UNCHANGED <<exVars, tkVars, anVars, dnVars, feVars, lkVars>>

\* self._extract_icons(icons_dir): a failure leaves an executable without icon
ExtractIcons ==
    /\ pl_pc = "icons"
    /\ \E failing \in SUBSET (1..Len(executables)) :
          LET exes == extract_icons(executables, src, failing)
          IN  /\ executables' = exes
              /\ out' = [out EXCEPT !.icons = icon_files(executables, src, failing),
                                     !.attempts = icon_attempts(executables, src)]
              /\ pl_done' = Append(pl_done,
                     Ran("icons", IF \E k \in 1..Len(exes) : exes[k].icon = ""
                                  THEN "soft" ELSE "ok"))
    /\ pl_pc' = StageAfter("icons")
    /\ UNCHANGED <<src, update_prefix, analysis, wine_config, app_metadata,
                   exclusions, normalized, last, loaded>>
    /\ UNCHANGED <<exVars, tkVars, anVars, dnVars, feVars, lkVars>>

\* self._bundle_wine(wine_dir)
BundleWine ==
    /\ pl_pc = "bundle"
    /\ LET b == bundle_wine(wine_config)
       IN  IF b.err # ""
           THEN /\ pl_done' = Append(pl_done, Ran("bundle", "fatal"))
                /\ pl_pc' = "idle"
                /\ out' = [out EXCEPT !.exported = "failed"]
                /\ last' = Call("export", "", "", b.err)
                /\ UNCHANGED wine_config
           ELSE /\ wine_config' = b.wine_config
                /\ out' = [out EXCEPT !.wine = b.wine]
                /\ pl_done' = Append(pl_done, Ran("bundle", "ok"))
                /\ pl_pc' = StageAfter("bundle")
                /\ UNCHANGED last
    /\ UNCHANGED <<src, update_prefix, analysis, executables, app_metadata,
                   exclusions, normalized, loaded>>
    /\ UNCHANGED <<exVars, tkVars, anVars, dnVars, feVars, lkVars>>

\* spec = self._generate_spec(analysis); spec.save(output_path); return spec
GenerateSpec ==
    /\ pl_pc = "manifest"
    /\ LET spec == generate_spec(analysis.report, app_metadata, wine_config,
                                 executables, exclusions)
       IN  out' = [out EXCEPT !.manifest = spec, !.file = save(spec),
                              !.exported = IF out.exported = "no" THEN "ok" ELSE @]
    /\ pl_done' = Append(pl_done, Ran("manifest", "ok"))
    /\ pl_pc' = StageAfter("manifest")
    /\ last' = Call("export", "", "", "")
    /\ UNCHANGED <<src, update_prefix, analysis, executables, wine_config, app_metadata,
                   exclusions, normalized, loaded>>
    /\ UNCHANGED <<exVars, tkVars, anVars, dnVars, feVars, lkVars>>

StageTrees ==
    { MkSource("dir", TRUE, "dir", "/", TRUE),
      MkSource("dir", TRUE, "absent", "/", TRUE) }

InitStages == Init /\ src \in StageTrees
NextStages ==
    \/ AddExecutable
    \/ SetWineMode
    \/ ExportBegin
    \/ Warmup
    \/ CopyPrefix
    \/ TokenizeRegistry
    \/ NormalizeUserDir
    \/ ExtractIcons
    \/ BundleWine
    \/ GenerateSpec
SpecStages == InitStages /\ [][NextStages]_vars

-----------------------------------------------------------------------------
\* The path prefixes the claims recognise, and what ends a path segment.
RecognisedPrefixes ==
    {PFX_C_ESCAPED, PFX_C_SINGLE, PFX_Z_ESCAPED, PFX_Z_SINGLE, PFX_HOME}

EndsSegmentAt(text, i) == i > Len(text) \/ Char(text, i) \in {"\\", "/"}

\* The user name, in any letter case, right after a recognised prefix at
\* position i of the text and ending a path segment.
UserOccursAt(text, i, user) ==
    \E pfx \in RecognisedPrefixes :
        /\ MatchesAt(text, i, pfx \o user, TRUE)
        /\ EndsSegmentAt(text, i + Len(pfx) + Len(user))

(* C3: tokenize replaces every occurrence of the user name (any letter     *)
(* case) that follows a recognised path prefix and ends a path segment, so *)
(* none is left in the tokenized text; in particular                       *)
(* C:\\users\\alice\\Desktop becomes C:\\users\\__WINE_USER__\\Desktop.    *)
C3_TokenizeReplacesUser ==
    tk_pc \in {"tokenized", "done"} =>
        /\ \A i \in 1..Len(tk_tokenized) : ~UserOccursAt(tk_tokenized, i, tk_user)
        /\ (tk_text = "C:\\\\users\\\\alice\\\\Desktop" /\ tk_user = "alice")
              => tk_tokenized = "C:\\\\users\\\\__WINE_USER__\\\\Desktop"

\* Every occurrence of the user name in the text has the user's own letter case.
ExactCaseOnly(text, user) ==
    \A i \in 1..Len(text) :
        MatchesAt(text, i, user, TRUE) => MatchesAt(text, i, user, FALSE)

(* C4: detokenize(tokenize(t, u), u, home) = t for every text t holding    *)
(* the user name u (written as u is) in the recognised path forms.         *)
C4_RoundTrip ==
    (tk_pc = "done" /\ ExactCaseOnly(tk_text, tk_user)) => tk_restored = tk_text

-----------------------------------------------------------------------------
\* The structural markers of a prefix: the drive_c directory, the system.reg file.
HasMarkers(root, tree) ==
    /\ root = "dir"
    /\ KindAt(tree, DRIVE_C) \in {"dir", "xdir"}
    /\ KindAt(tree, SYSTEM_REG) = "file"

(* C7: for every prefix root that lacks the drive_c directory or the       *)
(* system.reg file (a root that does not exist included), analyze returns  *)
(* is_valid_prefix = false and at least one warning, and does not raise.   *)
C7_InvalidPrefixReported ==
    (an_pc = "done" /\ ~HasMarkers(an_root, an_tree)) =>
        /\ an_result.raised = ""
        /\ ~an_result.report.is_valid_prefix
        /\ Len(an_result.report.warnings) >= 1

(* C8: analyze never raises, whatever the state of the source tree         *)
(* (a drive_c/users that is a regular file or cannot be listed included).  *)
C8_AnalyzeNeverRaises ==
    an_pc = "done" => an_result.raised = ""

-----------------------------------------------------------------------------
(* C6: exclusion matching is separator-invariant in both directions: the   *)
(* decision for a forward-slash pattern and a backslash path equals the    *)
(* decision for a backslash pattern and a forward-slash path.              *)
C6_SeparatorInvariant ==
    ex_pc = "done" => (ex_fwdpat = ex_natpat)

-----------------------------------------------------------------------------
\* The staged copy was made: export got past its copy stages.
Staged == out.exported # "no"

\* A target that is an absolute path.
IsAbsolute(target) == StartsWith(target, "/")

(* C1: after export, every link of the staged tree has a relative target:  *)
(* no source link with an absolute target is reproduced with that target,  *)
(* wherever the link is and whatever its name.                             *)
C1_NoAbsoluteLinkStaged ==
    Staged => \A e \in out.staged : e.kind = "link" => ~IsAbsolute(e.data)

\* An export of a source that holds absolute links inside and outside
\* dosdevices, with the links that are kept staged.
C1_Witness ==
    /\ out.exported = "ok"
    /\ \E e \in src : e.kind = "link" /\ IsAbsolute(e.data)
                        /\ ~Contains(e.path, "dosdevices")
    /\ \E e \in src : e.kind = "link" /\ IsAbsolute(e.data)
                        /\ e.path = "dosdevices/d:"
    /\ \E e \in out.staged : e.kind = "link"

(* C2: the link that maps the Z drive is never shipped: when the source    *)
(* holds a link at dosdevices/z:, whatever its target, the staged tree     *)
(* holds nothing at that place.                                            *)
C2_ZDriveNeverStaged ==
    (Staged /\ KindAt(src, Z_DRIVE) = "link") => ~Has(out.staged, Z_DRIVE)

\* An export of a source whose z: link has a relative target, with the other
\* drive links of the directory staged.
C2_Witness ==
    /\ out.exported = "ok"
    /\ KindAt(src, Z_DRIVE) = "link"
    /\ ~IsAbsolute(EntryAt(src, Z_DRIVE).data)
    /\ Has(out.staged, "dosdevices/c:")
    /\ Has(out.staged, "dosdevices/d:")

(* C5: whatever add_exclusion and remove_exclusion calls were made, the    *)
(* staged copy keeps the top-level configuration files that tokenization   *)
(* processes: each of system.reg, user.reg, userdef.reg that the source    *)
(* holds is in the staged tree.                                            *)
C5_RegistryFilesStaged ==
    Staged => \A f \in REG_FILES : KindAt(src, f) = "file" => Has(out.staged, f)

\* The prefix passes the structural validation (the analyzer's).
PassesValidation(tree) == is_valid_prefix("dir", tree)

RejectedInput(tree, path, icon) ==
    \/ ~full_path_exists(tree, path)
    \/ (icon # "" /\ icon \notin OutsideFiles)

-----------------------------------------------------------------------------
\* The runtime path the configuration refers to is not on the machine.
RuntimeMissing(cfg) ==
    cfg.mode = "bundled" /\ cfg.bundled_path # "" /\ cfg.bundled_path \notin OutsideDirs

C12_ManifestHasExecutables ==
    out.manifest.written => out.manifest.executables # <<>>

\* A manifest written by an export that had to normalize with metadata set by hand.
C12_Witness ==
    /\ out.manifest.written
    /\ out.manifest.app.name = "myapp"
    /\ Len(out.manifest.executables) = MaxExes

(* C13: executable ids are unique within a capture configuration: no two   *)
(* entries of the session's executable list have the same id.              *)
C13_UniqueIds ==
    \A i, j \in 1..Len(executables) :
        i # j => executables[i].id # executables[j].id

-----------------------------------------------------------------------------
(* C14: the ids derived from a sequence of display names are pairwise      *)
(* distinct; a repeated name gets a numeric suffix (two entries named      *)
(* Launcher give launcher and launcher-1) and a suffixed id never equals   *)
(* the id derived for another name of the sequence.                        *)
C14_DerivedIdsDistinct ==
    dn_pc = "done" =>
        /\ \A i, j \in 1..Len(dn_ids) : i # j => dn_ids[i] # dn_ids[j]
        /\ dn_names = <<"Launcher", "Launcher">> => dn_ids = <<"launcher", "launcher-1">>

\* The lowercased name with every maximal run of characters outside a-z0-9
\* replaced by one hyphen; in_run tells that the previous character was replaced.
RECURSIVE CollapseFrom(_, _, _)
CollapseFrom(text, i, in_run) ==
    IF i > Len(text) THEN ""
    ELSE IF IsAlnumLower(Char(text, i))
         THEN Char(text, i) \o CollapseFrom(text, i + 1, FALSE)
         ELSE (IF in_run THEN "" ELSE "-") \o CollapseFrom(text, i + 1, TRUE)

\* ... and without the hyphens at its two ends.
Slug(name) ==
    LET c == CollapseFrom(ToLower(name), 1, FALSE)
        from == IF Len(c) > 0 /\ Char(c, 1) = "-" THEN 2 ELSE 1
        to == IF Len(c) > 0 /\ Char(c, Len(c)) = "-" THEN Len(c) - 1 ELSE Len(c)
    IN  SubSeq(c, from, to)

(* C15: the name derived from a display name is the lowercased name with   *)
(* each maximal run of non-alphanumeric characters replaced by exactly one *)
(* hyphen and the leading and trailing hyphens removed; My Cool App!!      *)
(* gives my-cool-app.                                                      *)
C15_DerivedNameCollapsesRuns ==
    dn_pc = "done" =>
        \A k \in 1..Len(dn_names) : dn_bases[k] = Slug(dn_names[k])

-----------------------------------------------------------------------------
\* The declared fields of two executable lists agree, position by position.
SameExecutables(a, b) ==
    /\ Len(a) = Len(b)
    /\ \A k \in 1..Len(a) :
          /\ a[k].id = b[k].id /\ a[k].name = b[k].name
          /\ a[k].path = b[k].path /\ a[k].icon = b[k].icon

\* Two specifications agree on every field.
SameSpec(a, b) ==
    /\ a.app.name = b.app.name /\ a.app.display_name = b.app.display_name
    /\ a.wine = b.wine
    /\ a.prefix = b.prefix
    /\ SameExecutables(a.executables, b.executables)
    /\ a.excluded_patterns = b.excluded_patterns

\* A step keeps the entries of the executable list at their positions and adds
\* at most one, at the end.
KeepsOrder ==
    /\ Len(executables') \in {Len(executables), Len(executables) + 1}
    /\ \A k \in 1..Len(executables) :
          /\ executables'[k].id = executables[k].id
          /\ executables'[k].name = executables[k].name
          /\ executables'[k].path = executables[k].path

(* C16: loading the manifest export saved gives a specification equal,     *)
(* field by field, to the saved one; its executables are in the order of   *)
(* the add_executable calls and its exclusion patterns are the list the    *)
(* staged copy used.                                                       *)
C16_ManifestRoundTrip ==
    [][ /\ KeepsOrder
        /\ loaded'.called =>
              /\ loaded'.err = ""
              /\ SameSpec(loaded'.spec, out'.manifest)
              /\ SameExecutables(loaded'.spec.executables, executables')
              /\ loaded'.spec.excluded_patterns = exclusions' ]_vars

\* A loaded manifest with two executables and a pattern list that is not the default
\* of either class.
C16_Witness ==
    /\ loaded.called /\ loaded.err = ""
    /\ Len(loaded.spec.executables) = MaxExes
    /\ loaded.spec.executables[1].id # loaded.spec.executables[2].id
    /\ loaded.spec.executables[1].icon # ""
    /\ loaded.spec.excluded_patterns # SPEC_EXCLUDED_PATTERNS
    /\ loaded.spec.excluded_patterns # DEFAULT_EXCLUSIONS

-----------------------------------------------------------------------------
(* C17: the prefix fingerprint of every manifest export produces records   *)
(* as original user exactly the primary user name the analyzer detected in *)
(* the source prefix, as placeholder the token tokenization and the rename *)
(* of the user directory use, and as original path the absolute source     *)
(* path.                                                                   *)
C17_FingerprintRecordsDetected ==
    out.manifest.written =>
        /\ out.manifest.prefix.original_user = analysis.report.detected_user
        /\ out.manifest.prefix.normalized_user = USER_TOKEN
        /\ out.manifest.prefix.original_path = PREFIX_PATH

-----------------------------------------------------------------------------
\* The position of a stage in the order the claim gives.
StagePos(stage) ==
    CASE stage = "warmup" -> 1 [] stage = "copy" -> 2 [] stage = "tokenize" -> 3
      [] stage = "rename" -> 4 [] stage = "icons" -> 5 [] stage = "bundle" -> 6
      [] stage = "manifest" -> 7

StagesDone == {pl_done[i].stage : i \in 1..Len(pl_done)}

(* C18: export runs its stages in one fixed order, each after the previous *)
(* one completed or failed softly: optional warm-up, staged copy,          *)
(* tokenization, rename of the user directory, icons, optional bundling,   *)
(* manifest; the manifest is written last and only if no earlier stage     *)
(* failed fatally.                                                         *)
C18_StagesInFixedOrder ==
    /\ \A i \in 1..Len(pl_done) :
          \* after every earlier stage, and after no fatal failure
          /\ \A j \in 1..(i - 1) :
                /\ StagePos(pl_done[j].stage) < StagePos(pl_done[i].stage)
                /\ pl_done[j].result # "fatal"
          \* no stage before it was left out, the optional ones aside
          /\ \A st \in {"copy", "tokenize", "rename", "icons"} :
                StagePos(st) < StagePos(pl_done[i].stage) => st \in StagesDone
          /\ (update_prefix /\ pl_done[i].stage # "warmup") => "warmup" \in StagesDone
          /\ (wine_config.mode = "bundled" /\ pl_done[i].stage = "manifest")
                => "bundle" \in StagesDone
    /\ "warmup" \in StagesDone => update_prefix
    /\ pl_pc # "idle" =>
          \A i \in 1..Len(pl_done) :
             /\ StagePos(pl_done[i].stage) < StagePos(pl_pc)
             /\ pl_done[i].result # "fatal"
    /\ out.manifest.written <=>
          (pl_done # <<>> /\ pl_done[Len(pl_done)] = Ran("manifest", "ok"))
    /\ out.manifest.written <=> out.file.exists
    /\ out.manifest.written => (pl_pc = "idle" /\ out.exported = "ok")

\* An export that ran all seven stages, with a warm-up that timed out and an
\* executable left without icon.
C18_Witness ==
    /\ Len(pl_done) = 7
    /\ pl_done[1] = Ran("warmup", "timeout")
    /\ pl_done[5] = Ran("icons", "soft")
    /\ pl_done[6] = Ran("bundle", "ok")
    /\ out.manifest.written
    /\ out.staged # {}

-----------------------------------------------------------------------------
WarmupFailed ==
    /\ pl_done # <<>>
    /\ pl_done[1].stage = "warmup"
    /\ pl_done[1].result \in {"timeout", "not_found", "nonzero", "error"}

(* C19: a failure of the warm-up of any kind (timeout, missing tool,       *)
(* non-zero exit, other error) never aborts export: export goes on to the  *)
(* staged copy and completes as after a successful warm-up; with the flag  *)
(* off the warm-up is not invoked.                                         *)
C19_WarmupFailureNotFatal ==
    /\ \A i \in 1..Len(pl_done) :
          pl_done[i].stage = "warmup" => pl_done[i].result \in WINEBOOT_KINDS
    /\ (WarmupFailed /\ Len(pl_done) = 1) => pl_pc = "copy"
    /\ (WarmupFailed /\ pl_pc = "idle") =>
          /\ "copy" \in StagesDone
          /\ out.staged = stage_prefix(src, exclusions, analysis.report.detected_user)
          /\ \/ out.exported = "ok" /\ out.manifest.written
             \/ /\ pl_done[Len(pl_done)] = Ran("bundle", "fatal")
                /\ bundle_wine(wine_config).err # ""
    /\ ~update_prefix => (pl_pc # "warmup" /\ "warmup" \notin StagesDone)

\* A completed export whose warm-up found no wineboot.
C19_Witness ==
    /\ WarmupFailed
    /\ pl_done[1].result = "not_found"
    /\ pl_pc = "idle"
    /\ out.exported = "ok"
    /\ out.manifest.written
    /\ out.staged # {}

-----------------------------------------------------------------------------
(* C20: in the icon stage a custom icon takes precedence over extraction   *)
(* (no extraction is attempted for an executable that has one), a failure  *)
(* of either way never aborts export, and afterwards every icon reference  *)
(* is empty or icons/<id>.png with that file in the staged icon directory. *)
C20_IconsBestEffort ==
    "icons" \in StagesDone =>
        /\ Len(out.attempts) = Len(executables)
        /\ \A k \in 1..Len(executables) :
              /\ executables[k].custom_icon_path # "" => out.attempts[k] = "copy"
              /\ executables[k].icon \in {"", "icons/" \o executables[k].id \o ".png"}
              /\ executables[k].icon # "" => executables[k].icon \in out.icons
        /\ \A i \in 1..Len(pl_done) :
              pl_done[i].stage = "icons" =>
                 /\ pl_done[i].result \in {"ok", "soft"}
                 /\ i = Len(pl_done) => pl_pc \in {"bundle", "manifest"}

\* A finished export with a copied custom icon and an executable whose icon
\* could not be had.
C20_Witness ==
    /\ pl_pc = "idle"
    /\ out.exported = "ok"
    /\ \E i, j \in 1..Len(executables) :
          /\ executables[i].custom_icon_path # ""
          /\ executables[i].icon \in out.icons
          /\ out.attempts[j] # "none"
          /\ executables[j].icon = ""
    /\ \E i \in 1..Len(pl_done) : pl_done[i] = Ran("icons", "soft")

-----------------------------------------------------------------------------
(* C21: no operation of a session (analyze, normalize, export with all its *)
(* stages) modifies the source prefix tree: tokenization and the rename of *)
(* the user directory touch only the staged copy, and the source tree is   *)
(* the same before and after export.                                       *)
C21_SourceUntouched == [][src' = src]_vars

-----------------------------------------------------------------------------
\* A relative path without a `..` segment: it cannot leave the prefix root.
StaysUnderRoot(path) ==
    /\ ~StartsWith(path, "/")
    /\ path # ".." /\ ~StartsWith(path, "../") /\ ~Contains(path, "/../")

(* C22: whenever normalize succeeds, the source path of every executable   *)
(* of the session exists and lies under the prefix root: an absolute path  *)
(* or one that leaves the root with `..` is never an accepted entry.       *)
C22_ExecutablesUnderRoot ==
    normalized =>
        \A k \in 1..Len(executables) :
           /\ StaysUnderRoot(executables[k].path)
           /\ path_exists("dir", src, executables[k].path)

-----------------------------------------------------------------------------
(* C23: the report is never cached across a mutation of the source tree:   *)
(* after the source changed (the warm-up of export included) the report    *)
(* normalize and export use is one computed from the current tree.         *)
C23_ReportIsCurrent ==
    analysis.cached => Returned(analysis.report) \in analyze("dir", src)

-----------------------------------------------------------------------------
\* The files of the walk in walk order, each with the directory it is in.
RECURSIVE WalkedFiles(_, _)
WalkedFiles(walk, k) ==
    IF k > Len(walk) THEN <<>>
    ELSE [i \in 1..Len(walk[k].files) |->
             [root |-> walk[k].root, name |-> walk[k].files[i].name,
              size |-> walk[k].files[i].size]]
         \o WalkedFiles(walk, k + 1)

\* The position of a path among the files of the walk.
WalkIndex(path) ==
    LET all == WalkedFiles(fe_walk, 1)
    IN  CHOOSE i \in 1..Len(all) : Join(all[i].root, all[i].name) = path

(* C24: the candidate list analyze returns is ordered by byte size, not    *)
(* increasing; candidates of equal size keep their walk order; a candidate *)
(* is flagged as likely main application exactly when its size is above    *)
(* 1,000,000 bytes (a 2 MB game.exe ranks above a 10 KB tool.exe).         *)
C24_CandidatesSortedBySize ==
    fe_pc = "done" =>
        /\ \A i, j \in 1..Len(fe_result) :
              i < j =>
                 /\ fe_result[i].size >= fe_result[j].size
                 /\ fe_result[i].size = fe_result[j].size
                       => WalkIndex(fe_result[i].path) < WalkIndex(fe_result[j].path)
        /\ \A i \in 1..Len(fe_result) :
              fe_result[i].probable_app <=> fe_result[i].size > 1000000
        /\ \A i, j \in 1..Len(fe_result) :
              (fe_result[i].path = "drive_c/Games/game.exe"
                 /\ fe_result[j].path = "drive_c/Games/tool.exe") => i < j

\* A list with two candidates of 10 KB found in different directories, a
\* candidate of exactly 1,000,000 bytes and the 2 MB game.exe.
C24_Witness ==
    /\ fe_pc = "done"
    /\ \E i, j, k, l \in 1..Len(fe_result) :
          /\ fe_result[i].path = "drive_c/Program Files/App/other.exe"
          /\ fe_result[j].path = "drive_c/Games/tool.exe"
          /\ i < j
          /\ fe_result[k].size = 1000000 /\ ~fe_result[k].probable_app
          /\ fe_result[l].path = "drive_c/Games/game.exe" /\ fe_result[l].probable_app

-----------------------------------------------------------------------------
\* The directory is one of the listed system subtrees of drive_c, or below one.
InSystemSubtree(rel_root) ==
    \E k \in 1..Len(SKIP_DIRS) :
       LET d == ToLower(Join(DRIVE_C, SKIP_DIRS[k]))
       IN  ToLower(rel_root) = d \/ StartsWith(ToLower(rel_root), d \o "/")

\* The paths of the .exe files of the walk that are in no system subtree and
\* whose name matches no skip pattern.
ExpectedCandidates ==
    LET all == WalkedFiles(fe_walk, 1)
    IN  { Join(all[i].root, all[i].name) :
            i \in { k \in 1..Len(all) :
                      /\ EndsWith(ToLower(all[k].name), ".exe")
                      /\ ~InSystemSubtree(all[k].root)
                      /\ ~should_skip(all[k].name) } }

(* C25: an .exe file under drive_c is a candidate if and only if it is not *)
(* inside one of the listed system subtrees (a directory of that exact     *)
(* relative path under drive_c) and its name matches no installer,         *)
(* uninstaller or helper pattern; setup.exe is never a candidate, and      *)
(* drive_c/Games/MyWindowsGame/game.exe is one.                            *)
C25_CandidateIffNotSkipped ==
    fe_pc = "done" =>
        /\ {fe_result[i].path : i \in 1..Len(fe_result)} = ExpectedCandidates
        /\ \A i \in 1..Len(fe_result) : ToLower(PathName(fe_result[i].path)) # "setup.exe"

-----------------------------------------------------------------------------
\* The decision table: what a link at rel_path pointing to target becomes.
LinkDecision(rel_path, target) ==
    IF PathParent(rel_path) = "dosdevices"
    THEN IF PathName(rel_path) = "c:" THEN {Link(rel_path, "../drive_c")}
         ELSE IF PathName(rel_path) = "z:" THEN {}
         ELSE IF StartsWith(target, "/") THEN {} ELSE {Link(rel_path, target)}
    ELSE IF StartsWith(target, "/") THEN {} ELSE {Link(rel_path, target)}

(* C26: symlink handling equals the decision table for every (path,        *)
(* target) pair: a link whose parent is the drive-mapping directory is     *)
(* rewritten to ../drive_c if named c:, dropped if named z:, and otherwise *)
(* kept only if relative; a link anywhere else (also under a directory     *)
(* whose path merely contains `dosdevices`) is kept if relative and        *)
(* dropped if absolute, never rewritten or dropped because of its name.    *)
C26_SymlinkDecisionTable ==
    lk_pc = "done" => lk_result = LinkDecision(lk_path, lk_target)

-----------------------------------------------------------------------------
(* C27: the per-user directory in the staged tree                          *)

\* The entries of `tree` at and below the directory `dir`, as paths relative to it
Below(tree, dir) ==
    {SubSeq(e.path, Len(dir) + 2, Len(e.path)) :
        e \in {x \in tree : StartsWith(x.path, dir \o "/")}}

\* C27: after a successful export that used a report with the primary user u (a
\* name other than the token), the staged drive_c/users holds no entry named u,
\* and what the source holds below drive_c/users/u and no pattern excludes is
\* staged below drive_c/users/__WINE_USER__.
C27_UserDirOnlyUnderToken ==
    (out.exported = "ok" /\ analysis.report.detected_user \notin {NoUser, USER_TOKEN}) =>
        LET old == Join(USERS_DIR, analysis.report.detected_user)
            new == Join(USERS_DIR, USER_TOKEN)
        IN  /\ ~Has(out.staged, old)
            /\ \A e \in src :
                  (e.kind = "file" /\ StartsWith(e.path, old \o "/")
                      /\ ~should_exclude(exclusions, e.path))
                  => SubSeq(e.path, Len(old) + 2, Len(e.path)) \in Below(out.staged, new)

-----------------------------------------------------------------------------
(* C28: the manifest's executables in the staged tree                      *)

\* C28: after a successful export every executable of the manifest is a file of
\* the staged tree at the path the manifest records.
C28_ManifestExecutablesStaged ==
    out.exported = "ok" =>
        \A k \in 1..Len(out.manifest.executables) :
            \E e \in out.staged :
                e.kind = "file" /\ e.path = out.manifest.executables[k].path

-----------------------------------------------------------------------------
(* C29: a bundled manifest has its runtime                                 *)

\* C29: a manifest whose runtime mode is bundled records the path
\* wine/<runtime directory name>, and that directory is in the output.
C29_BundledManifestHasRuntime ==
    (out.manifest.written /\ out.manifest.wine.mode = "bundled") =>
        /\ StartsWith(out.manifest.wine.bundled_path, "wine/")
        /\ Len(out.manifest.wine.bundled_path) > Len("wine/")
        /\ out.manifest.wine.bundled_path \in out.wine

-----------------------------------------------------------------------------
(* C30: excluded directories                                               *)

\* C30: after an export, when a pattern excludes the relative path of a
\* directory of the source, the staged tree holds neither an entry at that path
\* nor an entry below it.
C30_ExcludedDirectoryAbsent ==
    out.exported = "ok" =>
        \A d \in src :
            (d.kind \in {"dir", "xdir"} /\ should_exclude(exclusions, d.path)) =>
                \A e \in out.staged :
                    e.path # d.path /\ ~StartsWith(e.path, d.path \o "/")

====
